---- MODULE Spec2Model ----
(***************************************************************************)
(* A model of the YouTubeLM front end's streaming client and citation      *)
(* rendering:                                                              *)
(*   - useSSE.startStream        (hooks/useSSE.ts)                         *)
(*   - streamSSE, useQA, useVideoSummary, useQuiz, handleSSEEvent          *)
(*                               (services/api.ts, hooks/useApi.ts)        *)
(*   - Message / VideoSummaryDisplay citation handling                     *)
(*                               (components/Chat/Message.tsx)             *)
(* Strings are sequences of one-character strings; a JavaScript value that *)
(* may be undefined or null is a sequence of length 0 (absent) or 1.       *)
(***************************************************************************)
EXTENDS Integers, Sequences, FiniteSets, TLC

VARIABLES
  \* ---- useSSE.startStream: one call
  ssePc,        \* "unused" | "idle" | "fetching" | "reading" | "resolved" | "rejected"
  sseContent,   \* let content
  sseSources,   \* let sources
  sseSessionId, \* let sessionId
  sseQuizId,    \* let quizId
  sseCalls,     \* the callbacks invoked so far, in order
  sseLog,       \* the lines the reader has delivered so far, in order
  \* ---- one hook instance (useQA | useVideoSummary | useQuiz)
  hook,         \* which hook this instance is ("none": not mounted)
  state,        \* the hook's StreamState
  req,          \* per request: its position and what its stream carried
  last,         \* the line handled by the latest step, and its request
  since,        \* token contents handled since content was last replaced
  \* ---- one Message / VideoSummaryDisplay instance
  message,      \* props.message: its content and its sources
  gen,          \* where the message came from: the generated text and chunk count
  seekMode,     \* whether props.onSeekVideo is provided
  click,        \* the latest citation click and what it did
  \* ---- the quiz store (stores/quizStore.ts) and one QuizDisplay
  quiz,         \* props.quiz
  quizState,    \* let quizState: the module-level store object
  shown,        \* what QuizDisplay rendered last
  quizOp,       \* the latest store operation and the session that called it
  \* ---- one ChatInput in quiz mode
  numInput,     \* props.quizNumQuestions and the latest onQuizNumQuestionsChange call
  \* ---- the chat store (stores/chatStore.ts)
  chatState,    \* let chatState: the module-level store object
  chatOp,       \* the latest store operation and its argument
  \* ---- useVideoSummary.summarize against the Summary Cache
  cache,        \* the Summary Cache: (video_id, summary_type) -> stored text
  generations,  \* how many times generation has run
  summaryCalls, \* how many summarize calls have completed
  summaryState, \* useVideoSummary's StreamState after the latest call
  summaryCall,  \* the latest call: its key, its options, how it was served
  returned,     \* per key, the content the latest call for it left in the hook
  \* ---- the Indexer's re-ingestion against concurrent retrievals
  vectorStore,  \* per video, the chunks in the vector store
  lexicalStore, \* per video, the chunk rows in the relational store
  committed,    \* per video, the version of its latest committed chunk set
  ingest,       \* per video, the re-ingestion in progress, if any
  retrieval,    \* per reader, the retrieval in progress and what it has read
  \* ---- requests issued one after another on one hook
  seqHook,      \* which hook
  seqState,     \* its StreamState
  seqFresh,     \* the StreamState a fresh hook would hold after the same request
  seqReq,       \* the latest request: its number, operation, position, events handled
  \* ---- streamSSE reading one response body
  wireBody,     \* the bytes the server sends
  wirePos,      \* how many of them have been read
  wireBuffer,   \* let buffer
  wireYielded,  \* the events yielded so far, in order
  wirePc,       \* reading, or ended
  \* ---- the quiz store with every field
  storeState,   \* let quizState: the module-level store object
  storeOp,      \* the latest operation, its arguments and the store before it
  \* ---- one QuizDisplay in use, on the quiz store above
  useValidating,\* props.isValidating
  useEvent,     \* the latest event, and the store and the prop at the time
  \* ---- one ChatInput: sending and the mode
  sendMode,     \* props.currentMode
  sendInput,    \* const [input, setInput]
  sendVideo,    \* props.selectedVideo
  sendStreaming,\* props.isStreaming
  sendHovered,  \* const [isModeHovered, setIsModeHovered]
  sendCall,     \* the latest of onSend and onModeChange, and isStreaming at the time
  \* ---- one ResizablePanels
  panelProps,   \* props.defaultSizes, props.minSizes, and the container size
  panelSizes,   \* const [sizes, setSizes]
  panelResizing,\* isResizingRef.current, and isResizing
  panelStart,   \* startPosRef.current and startSizesRef.current
  panelEvent,   \* the latest mouse event
  \* ---- one retrieval of the Hybrid Retriever
  fuseIn,       \* the lexical and the vector result list, and the initial pool size
  fused,        \* the fused candidates, sorted
  fuseOut,      \* what retrieve returns
  fusePc        \* searched, or returned

sseVars == <<ssePc, sseContent, sseSources, sseSessionId, sseQuizId, sseCalls, sseLog>>
hookVars == <<hook, state, req, last, since>>
citeVars == <<message, gen, seekMode, click>>
quizVars == <<quiz, quizState, shown, quizOp>>
inputVars == <<numInput>>
chatVars == <<chatState, chatOp>>
summaryVars == <<cache, generations, summaryCalls, summaryState, summaryCall, returned>>
ingestVars == <<vectorStore, lexicalStore, committed, ingest, retrieval>>
\* the variables of each remaining component, and all variables but them
seqVars == <<seqHook, seqState, seqFresh, seqReq>>
wireVars == <<wireBody, wirePos, wireBuffer, wireYielded, wirePc>>
storeVars == <<storeState, storeOp>>
useVars == <<useValidating, useEvent>>
sendVars == <<sendMode, sendInput, sendVideo, sendStreaming, sendHovered,
  sendCall>>
panelVars == <<panelProps, panelSizes, panelResizing, panelStart, panelEvent>>
fuseVars == <<fuseIn, fused, fuseOut, fusePc>>
thirdVars == <<seqVars, wireVars, storeVars, useVars, sendVars, panelVars,
  fuseVars>>
notSeqVars ==
  <<sseVars, hookVars, citeVars, quizVars, inputVars, chatVars, summaryVars,
    ingestVars, wireVars, storeVars, useVars, sendVars, panelVars, fuseVars>>
notWireVars ==
  <<sseVars, hookVars, citeVars, quizVars, inputVars, chatVars, summaryVars,
    ingestVars, seqVars, storeVars, useVars, sendVars, panelVars, fuseVars>>
notStoreVars ==
  <<sseVars, hookVars, citeVars, quizVars, inputVars, chatVars, summaryVars,
    ingestVars, seqVars, wireVars, useVars, sendVars, panelVars, fuseVars>>
notUseVars ==
  <<sseVars, hookVars, citeVars, inputVars, chatVars, summaryVars,
    ingestVars, seqVars, wireVars, storeVars, sendVars, panelVars, fuseVars>>
notSendVars ==
  <<sseVars, hookVars, citeVars, quizVars, inputVars, chatVars, summaryVars,
    ingestVars, seqVars, wireVars, storeVars, useVars, panelVars, fuseVars>>
notPanelVars ==
  <<sseVars, hookVars, citeVars, quizVars, inputVars, chatVars, summaryVars,
    ingestVars, seqVars, wireVars, storeVars, useVars, sendVars, fuseVars>>
notFuseVars ==
  <<sseVars, hookVars, citeVars, quizVars, inputVars, chatVars, summaryVars,
    ingestVars, seqVars, wireVars, storeVars, useVars, sendVars, panelVars>>
laterVars ==
  <<quizVars, inputVars, chatVars, summaryVars, ingestVars, thirdVars>>
notQuizVars ==
  <<sseVars, hookVars, citeVars, inputVars, chatVars, summaryVars, ingestVars,
    thirdVars>>
notInputVars ==
  <<sseVars, hookVars, citeVars, quizVars, chatVars, summaryVars, ingestVars,
    thirdVars>>
notChatVars ==
  <<sseVars, hookVars, citeVars, quizVars, inputVars, summaryVars, ingestVars,
    thirdVars>>
notSummaryVars ==
  <<sseVars, hookVars, citeVars, quizVars, inputVars, chatVars, ingestVars,
    thirdVars>>
notIngestVars ==
  <<sseVars, hookVars, citeVars, quizVars, inputVars, chatVars, summaryVars,
    thirdVars>>
vars == <<sseVars, hookVars, citeVars, laterVars>>

----------------------------------------------------------------------------
(* Bounds *)

\* lines delivered to one useSSE.startStream call
MaxSSELines == 2
\* lines delivered to one hook instance, over all its requests
MaxHookLines == 2
\* requests started on one hook instance
MaxRequests == 2
\* pieces a message text is put together from
MaxPieces == 3
\* sources attached to a message, and chunks handed to the synthesizer
MaxSources == 2
\* questions of a quiz QuizDisplay renders
MaxDisplayQuestions == 5
\* questions of the quiz the store operations run against
MaxQuestions == 2
\* digits typed into the question-count field
MaxTypedDigits == 2
\* messages in the chat store's list
MaxMessages == 2
\* characters of streaming content held by the chat store
MaxStreamingLen == 2
\* summarize calls in one run
MaxCalls == 3
\* chunks of one version of a video
MaxChunks == 2
\* committed re-ingestions of one video
MaxReingestions == 1
\* retrievals in flight at once
MaxReaders == 1
\* requests issued one after another on one hook
MaxSeqRequests == 2
\* events of one such request's stream
MaxSeqLines == 2
\* lines of the response body streamSSE reads
MaxWireLines == 2
\* chunks the two searches draw from, and the longest result list
MaxFuseChunks == 3

----------------------------------------------------------------------------
(* JavaScript values *)

Null == <<>>
Some(v) == <<v>>
\* x || d for a string or object x: undefined, null and '' are falsy
OrElse(x, d) == IF x = Null \/ x = Some(<<>>) THEN d ELSE x[1]
\* x || d for an array x: an empty array is truthy
OrElseArr(x, d) == IF x = Null THEN d ELSE x[1]

\* a SourceReference; start_time tells the chunks apart
Src(i, t) == [index |-> i, start_time |-> t, video_url |-> "u"]
Chunk(i) == Src(i, 10 * i)
S1 == Chunk(1)
S2 == Chunk(2)

Ev(t, c, s, v, sid, qid) ==
  [type |-> t, content |-> c, sources |-> s, video_info |-> v,
   session_id |-> sid, quiz_id |-> qid]
NoEvent == Ev("none", Null, Null, Null, Null, Null)

TokenEvents == { Ev("token", c, Null, Null, Null, Null) :
                   c \in {Some(<<"a">>), Some(<<"b">>), Null} }
SourcesEvents == { Ev("sources", Null, s, Null, Null, Null) :
                   s \in {Some(<<S1>>), Null} }
MetadataEvents == { Ev("metadata", Null, Null, v, Null, Null) :
                   v \in {Some("v1"), Null} }
DoneEvents == { Ev("done", Some(<<"b">>), Some(<<S2>>), Null, Some("s1"), Null),
                Ev("done", Null, Null, Null, Null, Null) }
CachedEvents == { Ev("cached", Some(<<"b">>), Null, Some("v2"), Null, Null),
                  Ev("cached", Null, Null, Null, Null, Null) }
ErrorEvents == { Ev("error", Some(<<"e">>), Null, Null, Null, Null),
                 Ev("error", Null, Null, Null, Null, Null) }
IdEvents == { Ev("session_id", Null, Null, Null, Some("s1"), Null),
              Ev("quiz_id", Null, Null, Null, Null, Some("q1")) }
OtherEvents == { Ev("progress", Null, Null, Null, Null, Null),
                 Ev("validation", Null, Null, Null, Null, Null) }
Events == TokenEvents \cup SourcesEvents \cup MetadataEvents \cup DoneEvents
            \cup CachedEvents \cup ErrorEvents \cup IdEvents \cup OtherEvents

\* A received line: "data: <json object>", "data: [DONE]", "data: <not JSON>",
\* "data: null", or a line that does not start with "data: ".
Line(k, e) == [kind |-> k, ev |-> e]
Data(e) == Line("data", e)
DoneMarker == Line("done_marker", NoEvent)
BadJson == Line("bad_json", NoEvent)
JsonNull == Line("json_null", NoEvent)
NotData == Line("not_data", NoEvent)
Lines == { Data(e) : e \in Events } \cup {DoneMarker, BadJson, JsonNull, NotData}

\* the lines of a hook's stream: for streamSSE "[DONE]" is one more line that
\* is not JSON, and session_id, quiz_id, progress and validation are all types
\* handleSSEEvent has no case for
HookEvents == Events \ (IdEvents \cup {Ev("validation", Null, Null, Null, Null, Null)})
HookLines == { Data(e) : e \in HookEvents } \cup {BadJson, JsonNull, NotData}

----------------------------------------------------------------------------
(* useSSE.startStream *)

Call(cb, arg) == [cb |-> cb, arg |-> arg]

\* sources.length > 0 ? sources : undefined
SourcesOrUndefined(s) == IF Len(s) > 0 THEN Some(s) ELSE Null

\* options.onDone(content, sources..., sessionId, quizId)
OnDoneCall == Call("onDone", <<sseContent, SourcesOrUndefined(sseSources),
                                sseSessionId, sseQuizId>>)
OnErrorCall(msg) == Call("onError", <<msg>>)

\* content += parsed.content || ''
sseAppendToken(content, parsed) == content \o OrElse(parsed.content, <<>>)

SSEInit ==
  /\ ssePc = "idle"
  /\ sseContent = <<>>
  /\ sseSources = <<>>
  /\ sseSessionId = Null
  /\ sseQuizId = Null
  /\ sseCalls = <<>>
  /\ sseLog = <<>>

SSEUnused ==
  /\ ssePc = "unused"
  /\ sseContent = <<>>
  /\ sseSources = <<>>
  /\ sseSessionId = Null
  /\ sseQuizId = Null
  /\ sseCalls = <<>>
  /\ sseLog = <<>>

\* startStream(url, body) is called: fetch is issued
SSEStart ==
  /\ ssePc = "idle"
  /\ ssePc' = "fetching"
  /\ UNCHANGED <<sseContent, sseSources, sseSessionId, sseQuizId, sseCalls, sseLog>>
  /\ UNCHANGED <<hookVars, citeVars, laterVars>>

\* the outer catch: options.onError(message); onError itself may throw
SSECatch(calls, msg, onErrorThrows) ==
  /\ sseCalls' = Append(calls, OnErrorCall(msg))
  /\ ssePc' = IF onErrorThrows THEN "rejected" ELSE "resolved"

\* fetch rejects, the status is not ok, or the response has no body
SSEFetchFail ==
  /\ ssePc = "fetching"
  /\ \E msg \in {"Failed to fetch", "HTTP error! status: 500", "No response body"},
        onErrorThrows \in BOOLEAN :
       SSECatch(sseCalls, msg, onErrorThrows)
  /\ UNCHANGED <<sseContent, sseSources, sseSessionId, sseQuizId, sseLog>>
  /\ UNCHANGED <<hookVars, citeVars, laterVars>>

SSEFetchOk ==
  /\ ssePc = "fetching"
  /\ ssePc' = "reading"
  /\ UNCHANGED <<sseContent, sseSources, sseSessionId, sseQuizId, sseCalls, sseLog>>
  /\ UNCHANGED <<hookVars, citeVars, laterVars>>

\* await options.onDone(...), inside the outer try
SSEFinish(onDoneRejects, onErrorThrows) ==
  IF onDoneRejects
  THEN SSECatch(Append(sseCalls, OnDoneCall), "onDone rejected", onErrorThrows)
  ELSE /\ sseCalls' = Append(sseCalls, OnDoneCall)
       /\ ssePc' = "resolved"

\* one line of the for loop
SSELine ==
  /\ ssePc = "reading"
  /\ Len(sseLog) < MaxSSELines
  /\ \E line \in Lines, cbThrows \in BOOLEAN, onErrorThrows \in BOOLEAN :
       /\ sseLog' = Append(sseLog, line)
       /\ CASE line.kind = "done_marker" ->
                 /\ SSEFinish(cbThrows, onErrorThrows)
                 /\ UNCHANGED <<sseContent, sseSources, sseSessionId, sseQuizId>>
            [] line.kind = "data" /\ line.ev.type = "token" ->
                 \* a throwing onToken is swallowed by the inner catch
                 /\ sseContent' = sseAppendToken(sseContent, line.ev)
                 /\ sseCalls' = Append(sseCalls,
                                  Call("onToken", <<OrElse(line.ev.content, <<>>)>>))
                 /\ onErrorThrows = FALSE
                 /\ UNCHANGED <<ssePc, sseSources, sseSessionId, sseQuizId>>
            [] line.kind = "data" /\ line.ev.type \in {"progress", "validation"} ->
                 /\ sseCalls' = Append(sseCalls,
                      Call(IF line.ev.type = "progress" THEN "onProgress"
                                                         ELSE "onValidation", <<>>))
                 /\ onErrorThrows = FALSE
                 /\ UNCHANGED <<ssePc, sseContent, sseSources, sseSessionId, sseQuizId>>
            [] line.kind = "data" /\ line.ev.type = "sources" ->
                 /\ sseSources' = OrElseArr(line.ev.sources, <<>>)
                 /\ cbThrows = FALSE /\ onErrorThrows = FALSE
                 /\ UNCHANGED <<ssePc, sseContent, sseSessionId, sseQuizId, sseCalls>>
            [] line.kind = "data" /\ line.ev.type = "session_id" ->
                 /\ sseSessionId' = line.ev.session_id
                 /\ cbThrows = FALSE /\ onErrorThrows = FALSE
                 /\ UNCHANGED <<ssePc, sseContent, sseSources, sseQuizId, sseCalls>>
            [] line.kind = "data" /\ line.ev.type = "quiz_id" ->
                 /\ sseQuizId' = line.ev.quiz_id
                 /\ cbThrows = FALSE /\ onErrorThrows = FALSE
                 /\ UNCHANGED <<ssePc, sseContent, sseSources, sseSessionId, sseCalls>>
            [] OTHER ->
                 \* not a data line, a parse error, or a type with no branch
                 /\ cbThrows = FALSE /\ onErrorThrows = FALSE
                 /\ UNCHANGED <<ssePc, sseContent, sseSources, sseSessionId,
                                sseQuizId, sseCalls>>
  /\ UNCHANGED <<hookVars, citeVars, laterVars>>

\* reader.read() rejects (the connection broke)
SSEReadFail ==
  /\ ssePc = "reading"
  /\ \E onErrorThrows \in BOOLEAN : SSECatch(sseCalls, "network error", onErrorThrows)
  /\ UNCHANGED <<sseContent, sseSources, sseSessionId, sseQuizId, sseLog>>
  /\ UNCHANGED <<hookVars, citeVars, laterVars>>

\* reader.read() returns done: the loop breaks, onDone is called after it
SSEEnd ==
  /\ ssePc = "reading"
  /\ \E onDoneRejects \in BOOLEAN, onErrorThrows \in BOOLEAN :
       /\ (~onDoneRejects => ~onErrorThrows)
       /\ SSEFinish(onDoneRejects, onErrorThrows)
  /\ UNCHANGED <<sseContent, sseSources, sseSessionId, sseQuizId, sseLog>>
  /\ UNCHANGED <<hookVars, citeVars, laterVars>>

SSENext ==
  SSEStart \/ SSEFetchFail \/ SSEFetchOk \/ SSELine \/ SSEReadFail \/ SSEEnd

----------------------------------------------------------------------------
(* useQA, useVideoSummary, useQuiz: streamSSE feeding handleSSEEvent *)

Hooks == {"useQA", "useVideoSummary", "useQuiz"}
OpsOf(h) == CASE h = "useQA" -> {"ask", "followup"}
              [] h = "useVideoSummary" -> {"summarize", "summarizeChapter"}
              [] h = "useQuiz" -> {"generate"}
              [] OTHER -> {}

Requests == 1..MaxRequests

\* useState<StreamState>({...})
InitialState ==
  [isStreaming |-> FALSE, content |-> <<>>, sources |-> <<>>,
   videoInfo |-> Null, sessionId |-> Null, error |-> Null]

\* the setState at the head of each operation
resetAsk(prev) ==
  [prev EXCEPT !.isStreaming = TRUE, !.content = <<>>, !.sources = <<>>,
               !.error = Null]
resetSummarize(prev) ==
  [prev EXCEPT !.isStreaming = TRUE, !.content = <<>>, !.videoInfo = Null,
               !.error = Null]
resetPlain(prev) ==
  [prev EXCEPT !.isStreaming = TRUE, !.content = <<>>, !.error = Null]
resetFor(op, prev) ==
  CASE op \in {"ask", "followup"} -> resetAsk(prev)
    [] op = "summarize" -> resetSummarize(prev)
    [] OTHER -> resetPlain(prev)

\* the catch block of each operation
catchError(prev, msg) ==
  [prev EXCEPT !.isStreaming = FALSE, !.error = Some(msg)]

\* handleSSEEvent, case by case
\* a slip: the new token is put in front of the accumulated content
handleTokenPrepends(prev, event) ==
  [prev EXCEPT !.content = OrElse(event.content, <<>>) \o prev.content]
handleToken(prev, event) ==
  [prev EXCEPT !.content = prev.content \o OrElse(event.content, <<>>)]
handleSources(prev, event) ==
  [prev EXCEPT !.sources = OrElseArr(event.sources, <<>>)]
handleMetadata(prev, event) ==
  [prev EXCEPT !.videoInfo = event.video_info]
handleDone(prev, event) ==
  [prev EXCEPT !.isStreaming = FALSE,
               !.sessionId = event.session_id,
               !.sources = OrElseArr(event.sources, prev.sources)]
\* a slip: the cached text is appended like a token
handleCachedAppends(prev, event) ==
  [prev EXCEPT !.isStreaming = FALSE,
               !.content = prev.content \o OrElse(event.content, <<>>),
               !.videoInfo = event.video_info]
handleCached(prev, event) ==
  [prev EXCEPT !.isStreaming = FALSE,
               !.content = OrElse(event.content, <<>>),
               !.videoInfo = event.video_info]
\* a slip: the error case resets the content as a request start does
handleErrorResetsContent(prev, event) ==
  [prev EXCEPT !.isStreaming = FALSE,
               !.content = <<>>,
               !.error = Some(OrElse(event.content, <<"Unknown error">>))]
handleError(prev, event) ==
  [prev EXCEPT !.isStreaming = FALSE,
               !.error = Some(OrElse(event.content, <<"Unknown error">>))]

\* a slip: an event of a type without a case is treated as an error
handleSSEEventUnknownIsError(prev, event) ==
  CASE event.type = "token" -> handleToken(prev, event)
    [] event.type = "sources" -> handleSources(prev, event)
    [] event.type = "metadata" -> handleMetadata(prev, event)
    [] event.type = "done" -> handleDone(prev, event)
    [] event.type = "cached" -> handleCached(prev, event)
    [] OTHER -> handleError(prev, event)
handleSSEEvent(prev, event) ==
  CASE event.type = "token" -> handleToken(prev, event)
    [] event.type = "sources" -> handleSources(prev, event)
    [] event.type = "metadata" -> handleMetadata(prev, event)
    [] event.type = "done" -> handleDone(prev, event)
    [] event.type = "cached" -> handleCached(prev, event)
    [] event.type = "error" -> handleError(prev, event)
    [] OTHER -> prev

TerminalTypes == {"done", "error", "cached"}
IsTerminal(line) == line.kind = "data" /\ line.ev.type \in TerminalTypes
IsToken(line) == line.kind = "data" /\ line.ev.type = "token"

IdleReq == [pc |-> "idle", tokens |-> <<>>, terminal |-> FALSE]
NoLast == [req |-> 0, line |-> NotData, seq |-> 0]

HookInit ==
  /\ hook \in Hooks
  /\ state = InitialState
  /\ req = [r \in Requests |-> IdleReq]
  /\ last = NoLast
  /\ since = <<>>

HookUnused ==
  /\ hook = "none"
  /\ state = InitialState
  /\ req = [r \in Requests |-> IdleReq]
  /\ last = NoLast
  /\ since = <<>>

\* ask / followup / summarize / summarizeChapter / generate is called
HookStart ==
  /\ UNCHANGED <<sseVars, citeVars, laterVars>>
  /\ \E r \in Requests, op \in OpsOf(hook) :
    /\ req[r].pc = "idle"
    /\ \A q \in Requests : q < r => req[q].pc # "idle"
    /\ state' = resetFor(op, state)
    /\ req' = [req EXCEPT ![r].pc = "fetching"]
    /\ since' = <<>>
    /\ UNCHANGED <<hook, last>>

\* streamSSE throws before its loop: fetch rejects, status not ok, no body
HookFetchFail ==
  /\ UNCHANGED <<sseVars, citeVars, laterVars>>
  /\ \E r \in Requests, msg \in {"HTTP 500", "No response body"} :
    /\ req[r].pc = "fetching"
    /\ state' = catchError(state, msg)
    /\ req' = [req EXCEPT ![r].pc = "finished"]
    /\ UNCHANGED <<hook, last, since>>

HookFetchOk ==
  /\ UNCHANGED <<sseVars, citeVars, laterVars>>
  /\ \E r \in Requests :
    /\ req[r].pc = "fetching"
    /\ req' = [req EXCEPT ![r].pc = "streaming"]
    /\ UNCHANGED <<hook, state, last, since>>

\* streamSSE reads one line; a data line that parses is yielded to the
\* for-await loop, which hands it to handleSSEEvent
HookLine ==
  /\ UNCHANGED <<sseVars, citeVars, laterVars>>
  /\ \E r \in Requests, line \in HookLines :
    /\ req[r].pc = "streaming"
    /\ last.seq < MaxHookLines
    /\ last' = [req |-> r, line |-> line, seq |-> last.seq + 1]
    /\ CASE line.kind = "data" ->
              /\ state' = handleSSEEvent(state, line.ev)
              /\ req' = [req EXCEPT
                   ![r].tokens = IF IsToken(line)
                                 THEN @ \o OrElse(line.ev.content, <<>>) ELSE @,
                   ![r].terminal = @ \/ IsTerminal(line)]
              /\ since' = CASE line.ev.type = "token" ->
                                 since \o OrElse(line.ev.content, <<>>)
                            [] line.ev.type = "cached" ->
                                 OrElse(line.ev.content, <<>>)
                            [] OTHER -> since
         [] line.kind = "json_null" ->
              \* handleSSEEvent(null) throws a TypeError into the catch block
              /\ state' = catchError(state, "TypeError")
              /\ req' = [req EXCEPT ![r].pc = "finished"]
              /\ UNCHANGED since
         [] OTHER ->
              \* not a data line, or JSON.parse threw: skipped
              /\ UNCHANGED <<state, req, since>>
    /\ UNCHANGED hook

\* reader.read() rejects
HookReadFail ==
  /\ UNCHANGED <<sseVars, citeVars, laterVars>>
  /\ \E r \in Requests :
    /\ req[r].pc = "streaming"
    /\ state' = catchError(state, "network error")
    /\ req' = [req EXCEPT ![r].pc = "finished"]
    /\ UNCHANGED <<hook, last, since>>

\* reader.read() returns done: the generator returns and the loop ends
HookEnd ==
  /\ UNCHANGED <<sseVars, citeVars, laterVars>>
  /\ \E r \in Requests :
    /\ req[r].pc = "streaming"
    /\ req' = [req EXCEPT ![r].pc = "finished"]
    /\ UNCHANGED <<hook, state, last, since>>

HookNext ==
  HookStart \/ HookFetchFail \/ HookFetchOk \/ HookLine \/ HookReadFail \/ HookEnd


----------------------------------------------------------------------------
(* Message / VideoSummaryDisplay: citations *)

DigitChars == {"0", "1", "2", "3", "4", "5", "6", "7", "8", "9"}
DigitValue(c) ==
  CASE c = "0" -> 0 [] c = "1" -> 1 [] c = "2" -> 2 [] c = "3" -> 3 [] c = "4" -> 4
    [] c = "5" -> 5 [] c = "6" -> 6 [] c = "7" -> 7 [] c = "8" -> 8 [] c = "9" -> 9

\* parseInt(match[1]) of a string of decimal digits
RECURSIVE parseInt(_)
parseInt(ds) ==
  IF Len(ds) = 0 THEN 0
  ELSE 10 * parseInt(SubSeq(ds, 1, Len(ds) - 1)) + DigitValue(ds[Len(ds)])

\* the first position from i on that holds no digit
RECURSIVE DigitsEnd(_, _)
DigitsEnd(text, i) ==
  IF i <= Len(text) /\ text[i] \in DigitChars THEN DigitsEnd(text, i + 1) ELSE i

\* /\[(\d+)\]/ tried at position i: the position of the closing bracket, or 0
MatchEnd(text, i) ==
  IF text[i] # "[" THEN 0
  ELSE LET j == DigitsEnd(text, i + 1)
       IN IF j > i + 1 /\ j <= Len(text) /\ text[j] = "]" THEN j ELSE 0

TextPart(t) == [kind |-> "text", n |-> 0, text |-> t]
\* <button onClick={() => handleCitationClick(citationIndex, sources)}>
ButtonPart(citationIndex) == [kind |-> "button", n |-> citationIndex, text |-> <<>>]

\* the while loop over citationRegex.exec(text); positions are 1-based here
RECURSIVE ScanParts(_, _, _, _)
ScanParts(text, i, lastIndex, parts) ==
  IF i > Len(text)
  THEN IF lastIndex <= Len(text)
       THEN Append(parts, TextPart(SubSeq(text, lastIndex, Len(text))))
       ELSE parts
  ELSE LET j == MatchEnd(text, i)
       IN IF j = 0
          THEN ScanParts(text, i + 1, lastIndex, parts)
          ELSE ScanParts(text, j + 1, j + 1,
                 Append(IF i > lastIndex
                        THEN Append(parts, TextPart(SubSeq(text, lastIndex, i - 1)))
                        ELSE parts,
                        ButtonPart(parseInt(SubSeq(text, i + 1, j - 1)))))

processTextWithCitations(text) ==
  LET parts == ScanParts(text, 1, 1, <<>>)
  IN IF Len(parts) > 0 THEN parts ELSE <<TextPart(text)>>

\* the content is one paragraph, whose text node is handed to
\* processTextWithCitations when the message has sources
renderContentWithCitations(content, sources) ==
  IF sources = Null \/ Len(sources[1]) = 0
  THEN <<TextPart(content)>>
  ELSE processTextWithCitations(content)

NoEffect == [kind |-> "none", time |-> 0, url |-> "none"]
\* onSeekVideo(source.start_time)
Seek(t) == [kind |-> "seek", time |-> t, url |-> "none"]
\* window.open(`${source.video_url}&t=${source.start_time}s`, ...)
Open(u, t) == [kind |-> "open", time |-> t, url |-> u]

\* a slip: index >= sources.length in the guard
handleCitationClickGuardOff(index, sources, seek) ==
  IF sources = Null \/ index >= Len(sources[1]) THEN NoEffect
  ELSE IF index < 1 THEN NoEffect
  ELSE LET source == sources[1][index]
       IN IF seek THEN Seek(source.start_time)
                  ELSE Open(source.video_url, source.start_time)

\* a slip: sources[index], the citation taken as 0-based
handleCitationClickZeroBased(index, sources, seek) ==
  IF sources = Null \/ index > Len(sources[1]) THEN NoEffect
  ELSE IF index + 1 > Len(sources[1]) THEN NoEffect
  ELSE LET source == sources[1][index + 1]
       IN IF seek THEN Seek(source.start_time)
                  ELSE Open(source.video_url, source.start_time)

handleCitationClick(index, sources, seek) ==
  IF sources = Null \/ index > Len(sources[1]) THEN NoEffect
  ELSE IF index < 1 THEN NoEffect   \* sources[index - 1] is undefined
  ELSE LET source == sources[1][index]
       IN IF seek THEN Seek(source.start_time)
                  ELSE Open(source.video_url, source.start_time)

(* The Answer Synthesizer's citation remap (spec section 4.5); its code is  *)
(* not part of the front end.                                               *)

\* the values of the [n] markers of a text, in order
RECURSIVE MarkerValues(_, _)
MarkerValues(text, i) ==
  IF i > Len(text) THEN <<>>
  ELSE LET j == MatchEnd(text, i)
       IN IF j = 0 THEN MarkerValues(text, i + 1)
          ELSE <<parseInt(SubSeq(text, i + 1, j - 1))>> \o MarkerValues(text, j + 1)

RECURSIVE FirstSeen(_, _)
FirstSeen(ns, acc) ==
  IF ns = <<>> THEN acc
  ELSE FirstSeen(Tail(ns),
         IF \E k \in 1..Len(acc) : acc[k] = Head(ns) THEN acc ELSE Append(acc, Head(ns)))

\* the chunks actually cited, in order of first appearance
Cited(text, nChunks) ==
  FirstSeen(SelectSeq(MarkerValues(text, 1), LAMBDA n : n >= 1 /\ n <= nChunks), <<>>)

IndexOf(seq, v) == CHOOSE j \in 1..Len(seq) : seq[j] = v

DigitChar(d) == CHOOSE c \in DigitChars : DigitValue(c) = d
RECURSIVE ToDigits(_)
ToDigits(k) == IF k < 10 THEN <<DigitChar(k)>>
               ELSE ToDigits(k \div 10) \o <<DigitChar(k % 10)>>

RECURSIVE RemapText(_, _, _, _)
RemapText(text, i, nChunks, cited) ==
  IF i > Len(text) THEN <<>>
  ELSE LET j == MatchEnd(text, i)
       IN IF j = 0 THEN <<text[i]>> \o RemapText(text, i + 1, nChunks, cited)
          ELSE LET n == parseInt(SubSeq(text, i + 1, j - 1))
               IN (IF n >= 1 /\ n <= nChunks
                   THEN <<"[">> \o ToDigits(IndexOf(cited, n)) \o <<"]">>
                   ELSE SubSeq(text, i, j))
                  \o RemapText(text, j + 1, nChunks, cited)

EmittedSources(text, nChunks) ==
  LET cited == Cited(text, nChunks)
  IN [j \in 1..Len(cited) |-> [Chunk(cited[j]) EXCEPT !.index = j]]

\* the final answer: the remapped text and the emitted source list
Synthesized(text, nChunks) ==
  [content |-> RemapText(text, 1, nChunks, Cited(text, nChunks)),
   sources |-> Some(EmittedSources(text, nChunks))]

(* The inputs *)

Pieces == { <<"[", "1", "]">>, <<"[", "2", "]">>, <<"[", "3", "]">>,
            <<"[", "0", "]">>, <<"[", "0", "2", "]">>, <<"x">>, <<"[">> }

RECURSIVE TextsUpTo(_)
TextsUpTo(k) ==
  IF k = 0 THEN {<<>>}
  ELSE LET shorter == TextsUpTo(k - 1)
       IN shorter \cup { t \o p : t \in shorter, p \in Pieces }
Texts == TextsUpTo(MaxPieces)

\* source lists as a backend may send them: any chunks, in any order, none twice
RECURSIVE SourceListsUpTo(_)
SourceListsUpTo(k) ==
  IF k = 0 THEN {<<>>}
  ELSE LET shorter == SourceListsUpTo(k - 1)
           Unlisted(l) == { c \in 1..MaxSources : \A j \in 1..Len(l) : l[j] # Chunk(c) }
       IN shorter \cup UNION { { Append(l, Chunk(i)) : i \in Unlisted(l) } : l \in shorter }
SourceLists == SourceListsUpTo(MaxSources)

NoGen == [kind |-> "received", text |-> <<>>, chunks |-> 0]
NoClick == [part |-> 0, n |-> 0, effect |-> NoEffect]

\* a message as received from the backend, or the synthesizer's final answer
CiteInit ==
  /\ seekMode \in BOOLEAN
  /\ click = NoClick
  /\ \/ /\ gen = NoGen
        /\ message \in [content : Texts, sources : {Null} \cup { Some(l) : l \in SourceLists }]
     \/ /\ gen \in [kind : {"synthesized"}, text : Texts, chunks : 0..MaxSources]
        /\ message = Synthesized(gen.text, gen.chunks)

CiteUnused ==
  /\ seekMode = FALSE
  /\ click = NoClick
  /\ gen = NoGen
  /\ message = [content |-> <<>>, sources |-> Null]

Rendered == renderContentWithCitations(message.content, message.sources)

\* the user clicks the button rendered as part k
CiteClick ==
  /\ UNCHANGED <<sseVars, hookVars, laterVars>>
  /\ \E k \in 1..Len(Rendered) :
       /\ Rendered[k].kind = "button"
       /\ click' = [part |-> k, n |-> Rendered[k].n,
                    effect |-> handleCitationClick(Rendered[k].n, message.sources, seekMode)]
  /\ UNCHANGED <<message, gen, seekMode>>

CiteNext == CiteClick

----------------------------------------------------------------------------
(* The quiz store and QuizDisplay *)

\* a Map<number, V> over the question indices in use: Null where no entry is
MapGet(m, k) == IF k \in DOMAIN m THEN m[k] ELSE Null
MapHas(m, k) == MapGet(m, k) # Null
MapSet(m, k, v) == [m EXCEPT ![k] = Some(v)]
MapClear(m) == [k \in DOMAIN m |-> Null]
MapSize(m) == Cardinality({ k \in DOMAIN m : m[k] # Null })
EmptyMap(indices) == [k \in indices |-> Null]

\* QuizValidationResult: is_correct and the optional llm_score
ValidationResult(c, s) == [is_correct |-> c, llm_score |-> s]
ValidationResults == { ValidationResult(TRUE, Some(80)),
                       ValidationResult(FALSE, Some(29)),
                       ValidationResult(FALSE, Null) }
\* the results the validation step stores while the store operations run
StoredResults == { ValidationResult(TRUE, Some(80)), ValidationResult(FALSE, Null) }
Answers == {"A", "B"}

\* QuizQuestion and Quiz
Question(i, t) == [question_index |-> i, question_type |-> t]
QuestionTypes == {"mcq", "open_ended"}
Quiz(n, qs) == [num_questions |-> n, questions |-> qs]

\* the two independent users of the store
Sessions == {"s1", "s2"}

\* let quizState = {...}
InitialQuizState(indices) ==
  [currentQuiz |-> Null, persistedQuizId |-> Null, isGenerating |-> FALSE,
   generationProgress |-> 0, isValidating |-> FALSE, selectedChapters |-> <<>>,
   userAnswers |-> EmptyMap(indices),
   validationResults |-> EmptyMap(indices)]

\* the operations useQuizStore() returns; each writes the one quizState
addValidationResult(st, questionIndex, result) ==
  [st EXCEPT !.validationResults = MapSet(@, questionIndex, result)]
clearValidationResults(st) ==
  [st EXCEPT !.validationResults = MapClear(@)]
\* a slip: resetQuiz clears the selected chapters as well
resetQuizClearsChapters(st) ==
  [st EXCEPT !.currentQuiz = Null, !.persistedQuizId = Null,
             !.isGenerating = FALSE, !.generationProgress = 0,
             !.isValidating = FALSE, !.selectedChapters = <<>>,
             !.userAnswers = MapClear(@),
             !.validationResults = MapClear(@)]
resetQuiz(st) ==
  [st EXCEPT !.currentQuiz = Null, !.persistedQuizId = Null,
             !.isGenerating = FALSE, !.generationProgress = 0,
             !.isValidating = FALSE,
             !.userAnswers = MapClear(@),
             !.validationResults = MapClear(@)]
setCurrentQuiz(st, q) == [st EXCEPT !.currentQuiz = q]
setPersistedQuizId(st, id) == [st EXCEPT !.persistedQuizId = id]
setIsGenerating(st, value) == [st EXCEPT !.isGenerating = value]
setGenerationProgress(st, value) == [st EXCEPT !.generationProgress = value]
setIsValidating(st, value) == [st EXCEPT !.isValidating = value]
setQuizSelectedChapters(st, chapters) == [st EXCEPT !.selectedChapters = chapters]
setAnswer(st, questionIndex, answer) ==
  [st EXCEPT !.userAnswers = MapSet(@, questionIndex, answer)]
clearAnswers(st) == [st EXCEPT !.userAnswers = MapClear(@)]

\* what a call of useQuizStore() reads, whichever session makes it
useQuizStore(session) == quizState

QuizOp(s, op, i, v) == [session |-> s, op |-> op, index |-> i, value |-> v]
NoQuizOp == QuizOp("none", "none", 0, Null)

\* ---- QuizDisplay

\* userAnswers.get(questionIndex) || ''
getAnswer(questionIndex) ==
  LET a == MapGet(quizState.userAnswers, questionIndex)
  IN IF a = Null THEN "" ELSE a[1]

\* quiz?.questions?.every((q) => validationResults.has(q.question_index)) ?? false
validationComplete ==
  IF quiz = Null THEN FALSE
  ELSE \A k \in 1..Len(quiz[1].questions) :
         MapHas(quizState.validationResults, quiz[1].questions[k].question_index)
allAnswered ==
  IF quiz = Null THEN FALSE
  ELSE \A k \in 1..Len(quiz[1].questions) :
         MapHas(quizState.userAnswers, quiz[1].questions[k].question_index)

\* a slip: the llm_score is taken whatever the question type
QuestionScoreByLlmScore(q, result) ==
  IF result.llm_score = Null THEN 0 ELSE result.llm_score[1]
\* the contribution of one question that has a result
QuestionScore(q, result) ==
  IF q.question_type = "mcq"
  THEN (IF result.is_correct THEN 100 ELSE 0)
  ELSE (IF result.llm_score = Null THEN 0 ELSE result.llm_score[1])

\* quiz.questions.forEach(...): totalScore
RECURSIVE TotalScore(_, _)
TotalScore(questions, results) ==
  IF questions = <<>> THEN 0
  ELSE LET q == Head(questions)
           result == MapGet(results, q.question_index)
       IN (IF result = Null THEN 0 ELSE QuestionScore(q, result[1]))
          + TotalScore(Tail(questions), results)

\* the k for which the double (k + 0.5) / 100 * 100 comes out below k + 0.5
TiesBelowHalf == {14, 28, 56, 57}

\* Math.round((totalScore / maxScore) * 100) in double arithmetic, for
\* 0 <= totalScore <= maxScore and maxScore > 0: the nearest integer, a tie
\* going up unless the double product falls below the tie
RoundPercent(totalScore, maxScore) ==
  LET k == (100 * totalScore) \div maxScore
      r == (100 * totalScore) % maxScore
  IN IF 2 * r > maxScore \/ (2 * r = maxScore /\ k \notin TiesBelowHalf)
     THEN k + 1 ELSE k

\* a slip: maxScore counts the validated questions only
calculateScoreOverValidated(q, results) ==
  IF q = Null \/ MapSize(results) = 0 THEN Null
  ELSE Some(RoundPercent(TotalScore(q[1].questions, results),
                         MapSize(results) * 100))
\* called only past the early return for a quiz without questions
calculateScore(q, results) ==
  IF q = Null \/ MapSize(results) = 0 THEN Null
  ELSE Some(RoundPercent(TotalScore(q[1].questions, results),
                         Len(q[1].questions) * 100))

\* a slip: the position in the list is taken for the question's index
renderQuestionByPosition(question, idx) ==
  [answer |-> getAnswer(idx),
   result |-> MapGet(quizState.validationResults, idx)]
\* what one question block shows: quiz.questions.map((question, idx) => ...)
renderQuestion(question, idx) ==
  [answer |-> getAnswer(question.question_index),
   result |-> MapGet(quizState.validationResults, question.question_index)]

Count(validated, total) == [validated |-> validated, total |-> total]
NotShown == [kind |-> "none", badge |-> 0, score |-> Null,
             scoreLine |-> Null, progressLine |-> Null]

\* the rendering of QuizDisplay past the isGenerating branch
QuizDisplay(isValidating) ==
  IF quiz = Null \/ Len(quiz[1].questions) = 0
  THEN [NotShown EXCEPT !.kind = "placeholder"]
  ELSE LET score == calculateScore(quiz, quizState.validationResults)
           size == MapSize(quizState.validationResults)
       IN [kind |-> "quiz",
           badge |-> quiz[1].num_questions,
           score |-> score,
           scoreLine |-> IF validationComplete /\ score # Null
                         THEN Some(Count(size, quiz[1].num_questions)) ELSE Null,
           progressLine |-> IF isValidating /\ ~validationComplete
                            THEN Some(Count(size, quiz[1].num_questions)) ELSE Null]

(* The inputs *)

\* the question types of a quiz of n questions: m multiple-choice questions
\* followed by n - m open-ended ones
TypeSeq(n, m) == [k \in 1..n |-> IF k <= m THEN "mcq" ELSE "open_ended"]
TypeSeqsUpTo(k) == { TypeSeq(n, m) : n \in 0..k, m \in 0..k } 

\* indices assigned densely from 0, in order
DenseQuestions(types) == [k \in 1..Len(types) |-> Question(k - 1, types[k])]

\* a quiz as the backend may send it: num_questions is the count of its
\* questions, or the count that was requested
DisplayIndices == 0..(MaxDisplayQuestions - 1)
DisplayQuizzes ==
  {Null} \cup
  UNION { { Some(Quiz(n, DenseQuestions(ts))) : n \in {Len(ts), Len(ts) + 1} } :
          ts \in TypeSeqsUpTo(MaxDisplayQuestions) }

\* questions carrying distinct indices, in any order
StoreIndices == 0..(MaxQuestions - 1)
RECURSIVE QuestionListsUpTo(_)
QuestionListsUpTo(k) ==
  IF k = 0 THEN {<<>>}
  ELSE LET shorter == QuestionListsUpTo(k - 1)
           Unused(l) == { i \in StoreIndices : \A j \in 1..Len(l) : l[j].question_index # i }
       IN shorter \cup
          UNION { { Append(l, Question(i, "mcq")) : i \in Unused(l) } : l \in shorter }
StoreQuizzes == {Null} \cup { Some(Quiz(Len(l), l)) : l \in QuestionListsUpTo(MaxQuestions) }

QuizUnused ==
  /\ quiz = Null
  /\ quizState = InitialQuizState({})
  /\ shown = NotShown
  /\ quizOp = NoQuizOp

\* a QuizDisplay mounted on a quiz, with any results stored
QuizDisplayInit ==
  /\ quiz \in DisplayQuizzes
  /\ quizState \in { [InitialQuizState(DisplayIndices) EXCEPT !.validationResults = m] :
                     m \in [DisplayIndices -> {Null} \cup { Some(r) : r \in ValidationResults }] }
  /\ shown = NotShown
  /\ quizOp = NoQuizOp

\* QuizDisplay renders, props.isValidating being either value
QuizRender ==
  /\ \E isValidating \in BOOLEAN : shown' = QuizDisplay(isValidating)
  /\ UNCHANGED <<quiz, quizState, quizOp>>
  /\ UNCHANGED notQuizVars

\* the store at module load
QuizStoreInit ==
  /\ quiz \in StoreQuizzes
  /\ quizState = InitialQuizState(StoreIndices)
  /\ shown = NotShown
  /\ quizOp = NoQuizOp

QuizSetAnswer ==
  /\ \E s \in Sessions, i \in DOMAIN quizState.userAnswers, a \in Answers :
       /\ quizState' = setAnswer(quizState, i, a)
       /\ quizOp' = QuizOp(s, "setAnswer", i, Some(a))
  /\ UNCHANGED <<quiz, shown>>
  /\ UNCHANGED notQuizVars

QuizAddValidationResult ==
  /\ \E s \in Sessions, i \in DOMAIN quizState.validationResults, r \in StoredResults :
       /\ quizState' = addValidationResult(quizState, i, r)
       /\ quizOp' = QuizOp(s, "addValidationResult", i, Some(r))
  /\ UNCHANGED <<quiz, shown>>
  /\ UNCHANGED notQuizVars

QuizClearAnswers ==
  /\ \E s \in Sessions :
       /\ quizState' = clearAnswers(quizState)
       /\ quizOp' = QuizOp(s, "clearAnswers", 0, Null)
  /\ UNCHANGED <<quiz, shown>>
  /\ UNCHANGED notQuizVars

QuizClearValidationResults ==
  /\ \E s \in Sessions :
       /\ quizState' = clearValidationResults(quizState)
       /\ quizOp' = QuizOp(s, "clearValidationResults", 0, Null)
  /\ UNCHANGED <<quiz, shown>>
  /\ UNCHANGED notQuizVars

QuizResetQuiz ==
  /\ \E s \in Sessions :
       /\ quizState' = resetQuiz(quizState)
       /\ quizOp' = QuizOp(s, "resetQuiz", 0, Null)
  /\ UNCHANGED <<quiz, shown>>
  /\ UNCHANGED notQuizVars

QuizStoreNext ==
  \/ QuizSetAnswer \/ QuizAddValidationResult \/ QuizClearAnswers
  \/ QuizClearValidationResults \/ QuizResetQuiz

----------------------------------------------------------------------------
(* ChatInput: the number of quiz questions *)

\* parseInt(e.target.value) of the text of a number field: an optional sign and
\* the digits after it; Null for NaN
parseIntValue(text) ==
  LET negative == Len(text) > 0 /\ text[1] = "-"
      from == IF negative THEN 2 ELSE 1
      to == DigitsEnd(text, from)
  IN IF to = from THEN Null
     ELSE Some((IF negative THEN -1 ELSE 1) * parseInt(SubSeq(text, from, to - 1)))

\* isNaN(parseInt(e.target.value)) ? 5 : parseInt(e.target.value)
typedNumQuestions(text) ==
  IF parseIntValue(text) = Null THEN 5 ELSE parseIntValue(text)[1]
\* Math.min(20, quizNumQuestions + 1)
incrementNumQuestions(n) == IF n + 1 < 20 THEN n + 1 ELSE 20
\* Math.max(1, quizNumQuestions - 1)
decrementNumQuestions(n) == IF n - 1 > 1 THEN n - 1 ELSE 1

\* what the user may type into the field: nothing, or a whole number
TypedDigits == {"0", "2", "5"}
RECURSIVE DigitStringsUpTo(_)
DigitStringsUpTo(k) ==
  IF k = 0 THEN {<<>>}
  ELSE LET shorter == DigitStringsUpTo(k - 1)
       IN shorter \cup { Append(ds, d) : ds \in shorter, d \in TypedDigits }
TypedValues ==
  DigitStringsUpTo(MaxTypedDigits)
    \cup { <<"-">> \o ds : ds \in DigitStringsUpTo(MaxTypedDigits) \ {<<>>} }

NumInput(value, by, passed) == [value |-> value, by |-> by, passed |-> passed]

\* quizNumQuestions = 5
NumInputInit == numInput = NumInput(5, "none", Null)
NumInputUnused == numInput = NumInput(0, "unused", Null)

\* the parent keeps what onQuizNumQuestionsChange passes and hands it back as
\* props.quizNumQuestions; the three controls are disabled while isStreaming
NumTyped ==
  /\ numInput.by # "unused"
  /\ \E text \in TypedValues :
       numInput' = NumInput(typedNumQuestions(text), "typed", Some(typedNumQuestions(text)))
  /\ UNCHANGED notInputVars

NumIncrement ==
  /\ numInput.by # "unused"
  /\ ~(numInput.value >= 20)
  /\ numInput' = NumInput(incrementNumQuestions(numInput.value), "increment",
                          Some(incrementNumQuestions(numInput.value)))
  /\ UNCHANGED notInputVars

NumDecrement ==
  /\ numInput.by # "unused"
  /\ ~(numInput.value <= 1)
  /\ numInput' = NumInput(decrementNumQuestions(numInput.value), "decrement",
                          Some(decrementNumQuestions(numInput.value)))
  /\ UNCHANGED notInputVars

NumInputNext == NumTyped \/ NumIncrement \/ NumDecrement

----------------------------------------------------------------------------
(* The chat store *)

\* ChatMessage: the id tells the messages apart
ChatMessage(id, role) == [id |-> id, role |-> role]
ChatMessages == { ChatMessage("m1", "user"), ChatMessage("m2", "assistant") }
TaskTypes == {"qa", "video_summary", "quiz"}

RECURSIVE MessageListsUpTo(_)
MessageListsUpTo(k) ==
  IF k = 0 THEN {<<>>}
  ELSE LET shorter == MessageListsUpTo(k - 1)
       IN shorter \cup { Append(l, m) : l \in shorter, m \in ChatMessages }

\* let chatState = {...}
InitialChatState ==
  [currentMode |-> "qa", messages |-> <<>>, currentSession |-> Null,
   isStreaming |-> FALSE, streamingContent |-> <<>>,
   selectedChapters |-> <<>>, selectedVideo |-> Null]

\* the operations useChatStore() returns; each writes the one chatState
setMode(st, mode) == [st EXCEPT !.currentMode = mode]
\* a slip: the new message is put in front of the list
addMessagePrepends(st, m) == [st EXCEPT !.messages = <<m>> \o @]
addMessage(st, m) == [st EXCEPT !.messages = @ \o <<m>>]
setMessages(st, messages) == [st EXCEPT !.messages = messages]
setCurrentSession(st, session) == [st EXCEPT !.currentSession = session]
setIsStreaming(st, isStreaming) == [st EXCEPT !.isStreaming = isStreaming]
appendStreamingContent(st, content) == [st EXCEPT !.streamingContent = @ \o content]
resetStreamingContent(st) == [st EXCEPT !.streamingContent = <<>>]
setSelectedChapters(st, chapters) == [st EXCEPT !.selectedChapters = chapters]
setSelectedVideo(st, videoId) == [st EXCEPT !.selectedVideo = videoId]

ChatOp(op, arg) == [op |-> op, arg |-> arg]
NoChatOp == ChatOp("none", Null)

ChatInit ==
  /\ chatState = InitialChatState
  /\ chatOp = NoChatOp

ChatUnused ==
  /\ chatState = InitialChatState
  /\ chatOp = ChatOp("unused", Null)

ChatSetMode ==
  /\ chatOp.op # "unused"
  /\ \E mode \in TaskTypes :
       /\ chatState' = setMode(chatState, mode)
       /\ chatOp' = ChatOp("setMode", Some(mode))
  /\ UNCHANGED notChatVars

ChatAddMessage ==
  /\ chatOp.op # "unused"
  /\ Len(chatState.messages) < MaxMessages
  /\ \E m \in ChatMessages :
       /\ chatState' = addMessage(chatState, m)
       /\ chatOp' = ChatOp("addMessage", Some(m))
  /\ UNCHANGED notChatVars

ChatSetMessages ==
  /\ chatOp.op # "unused"
  /\ \E messages \in MessageListsUpTo(MaxMessages) :
       /\ chatState' = setMessages(chatState, messages)
       /\ chatOp' = ChatOp("setMessages", Some(messages))
  /\ UNCHANGED notChatVars

ChatSetCurrentSession ==
  /\ chatOp.op # "unused"
  /\ \E session \in {Null, Some("c1")} :
       /\ chatState' = setCurrentSession(chatState, session)
       /\ chatOp' = ChatOp("setCurrentSession", session)
  /\ UNCHANGED notChatVars

ChatSetIsStreaming ==
  /\ chatOp.op # "unused"
  /\ \E isStreaming \in BOOLEAN :
       /\ chatState' = setIsStreaming(chatState, isStreaming)
       /\ chatOp' = ChatOp("setIsStreaming", Some(isStreaming))
  /\ UNCHANGED notChatVars

ChatAppendStreamingContent ==
  /\ chatOp.op # "unused"
  /\ Len(chatState.streamingContent) < MaxStreamingLen
  /\ \E content \in {<<"a">>, <<"b">>} :
       /\ chatState' = appendStreamingContent(chatState, content)
       /\ chatOp' = ChatOp("appendStreamingContent", Some(content))
  /\ UNCHANGED notChatVars

ChatResetStreamingContent ==
  /\ chatOp.op # "unused"
  /\ chatState' = resetStreamingContent(chatState)
  /\ chatOp' = ChatOp("resetStreamingContent", Null)
  /\ UNCHANGED notChatVars

ChatSetSelectedChapters ==
  /\ chatOp.op # "unused"
  /\ \E chapters \in {<<>>, <<"ch1">>} :
       /\ chatState' = setSelectedChapters(chatState, chapters)
       /\ chatOp' = ChatOp("setSelectedChapters", Some(chapters))
  /\ UNCHANGED notChatVars

ChatSetSelectedVideo ==
  /\ chatOp.op # "unused"
  /\ \E videoId \in {Null, Some("v1")} :
       /\ chatState' = setSelectedVideo(chatState, videoId)
       /\ chatOp' = ChatOp("setSelectedVideo", videoId)
  /\ UNCHANGED notChatVars

ChatNext ==
  \/ ChatSetMode \/ ChatAddMessage \/ ChatSetMessages \/ ChatSetCurrentSession
  \/ ChatSetIsStreaming \/ ChatAppendStreamingContent \/ ChatResetStreamingContent
  \/ ChatSetSelectedChapters \/ ChatSetSelectedVideo

----------------------------------------------------------------------------
(* useVideoSummary.summarize and the Summary Cache *)

Videos == {"v1", "v2"}
SummaryTypes == {"detailed", "quick"}
CacheKeys == Videos \X SummaryTypes
\* the texts a generation run may produce, one token per character
SummaryTexts == { <<"a">>, <<"b">>, <<"a", "b">> }

\* options?: { summaryType?, forceRegenerate? }
SummarizeOptions ==
  [summaryType : {Null} \cup { Some(ty) : ty \in SummaryTypes },
   forceRegenerate : {Null, Some(FALSE), Some(TRUE)}]

\* a slip: every request asks for regeneration
summarizeParamsForcesRegenerate(videoId, options) ==
  [video_id |-> videoId, summary_type |-> options.summaryType,
   force_regenerate |-> Some(TRUE)]
\* the request body summarize hands to apiClient.videoSummary.summarize
summarizeParams(videoId, options) ==
  [video_id |-> videoId, summary_type |-> options.summaryType,
   force_regenerate |-> options.forceRegenerate]

\* the request as the endpoint reads it: an absent summary_type is "detailed",
\* an absent force_regenerate is false
RequestedType(params) ==
  IF params.summary_type = Null THEN "detailed" ELSE params.summary_type[1]
RequestedForce(params) == params.force_regenerate = Some(TRUE)
CacheKey(params) == <<params.video_id, RequestedType(params)>>

EmptyCache == [k \in CacheKeys |-> Null]

\* getOrCreate(video_id, summary_type, force_regenerate): a hit without
\* force_regenerate returns the stored text; a miss or a forced call runs
\* generation (which yields text) and stores the result under the key
getOrCreate(c, key, force, text) ==
  IF c[key] # Null /\ ~force
  THEN [content |-> c[key][1], from_cache |-> TRUE, cache |-> c]
  ELSE [content |-> text, from_cache |-> FALSE,
        cache |-> [c EXCEPT ![key] = Some(text)]]

\* the events of the response: a hit is one cached event carrying the full
\* text; a generation is metadata, the tokens in order, then done
SummaryStream(video, result) ==
  IF result.from_cache
  THEN << Ev("cached", Some(result.content), Null, Some(video), Null, Null) >>
  ELSE << Ev("metadata", Null, Null, Some(video), Null, Null) >>
       \o [i \in 1..Len(result.content) |->
             Ev("token", Some(<<result.content[i]>>), Null, Null, Null, Null)]
       \o << Ev("done", Some(result.content), Null, Some(video), Null, Null) >>

\* for await (const event of stream) handleSSEEvent(event, setState)
RECURSIVE handleStream(_, _)
handleStream(prev, events) ==
  IF events = <<>> THEN prev
  ELSE handleStream(handleSSEEvent(prev, Head(events)), Tail(events))

\* re-ingestion of a video purges every cache entry of that video
purgeVideo(c, video) ==
  [k \in CacheKeys |-> IF k[1] = video THEN Null ELSE c[k]]

SummaryCall(key, force, fromCache) ==
  [key |-> key, force |-> force, from_cache |-> fromCache]
NoSummaryCall == SummaryCall(<<"none", "none">>, FALSE, FALSE)

SummaryInit ==
  /\ cache = EmptyCache
  /\ generations = 0
  /\ summaryCalls = 0
  /\ summaryState = InitialState
  /\ summaryCall = NoSummaryCall
  /\ returned = EmptyCache

SummaryUnused ==
  /\ cache = EmptyCache
  /\ generations = 0
  /\ summaryCalls = MaxCalls + 1
  /\ summaryState = InitialState
  /\ summaryCall = NoSummaryCall
  /\ returned = EmptyCache

\* one summarize call, from its setState to the end of its stream
Summarize ==
  /\ summaryCalls < MaxCalls
  /\ \E videoId \in Videos, options \in SummarizeOptions, text \in SummaryTexts :
       LET params == summarizeParams(videoId, options)
           result == getOrCreate(cache, CacheKey(params), RequestedForce(params), text)
           asked == <<videoId, IF options.summaryType = Null THEN "detailed"
                               ELSE options.summaryType[1]>>
           after == handleStream(resetSummarize(summaryState),
                                 SummaryStream(videoId, result))
       IN /\ cache' = result.cache
          /\ generations' = IF result.from_cache THEN generations ELSE generations + 1
          /\ summaryState' = after
          /\ summaryCall' = SummaryCall(asked, options.forceRegenerate = Some(TRUE),
                                        result.from_cache)
          /\ returned' = [returned EXCEPT ![asked] = Some(after.content)]
  /\ summaryCalls' = summaryCalls + 1
  /\ UNCHANGED notSummaryVars

\* a video is re-ingested between two calls
SummaryReingest ==
  /\ summaryCalls < MaxCalls
  /\ \E video \in Videos :
       /\ \E k \in CacheKeys : k[1] = video /\ cache[k] # Null
       /\ cache' = purgeVideo(cache, video)
       /\ returned' = purgeVideo(returned, video)
  /\ UNCHANGED <<generations, summaryCalls, summaryState, summaryCall>>
  /\ UNCHANGED notSummaryVars

SummaryNext == Summarize \/ SummaryReingest

----------------------------------------------------------------------------
(* The Indexer's re-ingestion of a video against concurrent retrievals *)

Readers == 1..MaxReaders
Versions == 1..(MaxReingestions + 1)

\* the chunks that ingesting a video for the version-th time yields
ChunkId(video, version, seq) == [video |-> video, version |-> version, seq |-> seq]
ChunkIds(video, version) == { ChunkId(video, version, s) : s \in 1..MaxChunks }

IdleIngest == [pc |-> "idle", written |-> 0, prior |-> {}, outcome |-> "none"]
IdleRetrieval ==
  [pc |-> "idle", video |-> "none", lexical |-> {}, vector |-> {}, during |-> FALSE]

\* a retrieval is inside the read side of a video's section
Inside(rt, video) == rt.video = video /\ rt.pc \in {"entered", "lexical_read"}

\* a slip: readers do not wait for the write section
mayReadAlways(ing, video) == TRUE
\* the per-video write section: readers wait while a re-ingestion holds it
mayRead(ing, video) == ing[video].pc = "idle"
\* and a re-ingestion waits for the retrievals that are reading the video
mayWrite(rts, video) == \A r \in Readers : ~Inside(rts[r], video)

IngestInit ==
  /\ vectorStore = [v \in Videos |-> ChunkIds(v, 1)]
  /\ lexicalStore = [v \in Videos |-> ChunkIds(v, 1)]
  /\ committed = [v \in Videos |-> 1]
  /\ ingest = [v \in Videos |-> IdleIngest]
  /\ retrieval = [r \in Readers |-> IdleRetrieval]

IngestUnused ==
  /\ vectorStore = [v \in Videos |-> {}]
  /\ lexicalStore = [v \in Videos |-> {}]
  /\ committed = [v \in Videos |-> 0]
  /\ ingest = [v \in Videos |-> IdleIngest]
  /\ retrieval = [r \in Readers |-> IdleRetrieval]

\* index(video, chunks) for a video that is already indexed: take the write
\* section and remove the old chunks from both stores
ReingestBegin ==
  /\ \E v \in Videos :
       /\ committed[v] \in 1..MaxReingestions
       /\ ingest[v].pc = "idle"
       /\ mayWrite(retrieval, v)
       /\ ingest' = [ingest EXCEPT ![v] =
            [pc |-> "writing", written |-> 0,
             prior |-> <<vectorStore[v], lexicalStore[v]>>, outcome |-> "none"]]
       /\ vectorStore' = [vectorStore EXCEPT ![v] = {}]
       /\ lexicalStore' = [lexicalStore EXCEPT ![v] = {}]
  /\ UNCHANGED <<committed, retrieval>>
  /\ UNCHANGED notIngestVars

\* for each chunk: upsert into the vector store
ReingestUpsertVector ==
  /\ \E v \in Videos :
       /\ ingest[v].pc = "writing"
       /\ ingest[v].written < MaxChunks
       /\ ChunkId(v, committed[v] + 1, ingest[v].written + 1) \notin vectorStore[v]
       /\ vectorStore' = [vectorStore EXCEPT ![v] =
            @ \cup {ChunkId(v, committed[v] + 1, ingest[v].written + 1)}]
  /\ UNCHANGED <<lexicalStore, committed, ingest, retrieval>>
  /\ UNCHANGED notIngestVars

\* and upsert the lexical row with the same chunk identifier
ReingestUpsertLexical ==
  /\ \E v \in Videos :
       /\ ingest[v].pc = "writing"
       /\ ingest[v].written < MaxChunks
       /\ ChunkId(v, committed[v] + 1, ingest[v].written + 1) \in vectorStore[v]
       /\ lexicalStore' = [lexicalStore EXCEPT ![v] =
            @ \cup {ChunkId(v, committed[v] + 1, ingest[v].written + 1)}]
       /\ ingest' = [ingest EXCEPT ![v].written = @ + 1]
  /\ UNCHANGED <<vectorStore, committed, retrieval>>
  /\ UNCHANGED notIngestVars

\* all new chunks are written: commit and leave the write section
ReingestCommit ==
  /\ \E v \in Videos :
       /\ ingest[v].pc = "writing"
       /\ ingest[v].written = MaxChunks
       /\ committed' = [committed EXCEPT ![v] = @ + 1]
       /\ ingest' = [ingest EXCEPT ![v].pc = "idle", ![v].outcome = "committed"]
  /\ UNCHANGED <<vectorStore, lexicalStore, retrieval>>
  /\ UNCHANGED notIngestVars

\* EmbeddingServiceUnavailable or StoreWriteError at any point of the writing:
\* the operation fails, the prior chunks are put back
ReingestFail ==
  /\ \E v \in Videos :
       /\ ingest[v].pc = "writing"
       /\ vectorStore' = [vectorStore EXCEPT ![v] = ingest[v].prior[1]]
       /\ lexicalStore' = [lexicalStore EXCEPT ![v] = ingest[v].prior[2]]
       /\ ingest' = [ingest EXCEPT ![v].pc = "idle", ![v].outcome = "failed"]
  /\ UNCHANGED <<committed, retrieval>>
  /\ UNCHANGED notIngestVars

\* retrieve(query, scope_filter = video, ...) is issued
RetrieveIssue ==
  /\ \E r \in Readers, v \in Videos :
       /\ committed[v] > 0
       /\ retrieval[r].pc = "idle"
       /\ retrieval' = [retrieval EXCEPT ![r] =
            [pc |-> "issued", video |-> v, lexical |-> {}, vector |-> {},
             during |-> ingest[v].pc = "writing"]]
  /\ UNCHANGED <<vectorStore, lexicalStore, committed, ingest>>
  /\ UNCHANGED notIngestVars

\* it enters the video's section once no re-ingestion holds it
RetrieveEnter ==
  /\ \E r \in Readers :
       /\ retrieval[r].pc = "issued"
       /\ mayRead(ingest, retrieval[r].video)
       /\ retrieval' = [retrieval EXCEPT ![r].pc = "entered"]
  /\ UNCHANGED <<vectorStore, lexicalStore, committed, ingest>>
  /\ UNCHANGED notIngestVars

\* the lexical search over the video's rows
RetrieveLexical ==
  /\ \E r \in Readers :
       /\ retrieval[r].pc = "entered"
       /\ retrieval' = [retrieval EXCEPT
            ![r].pc = "lexical_read",
            ![r].lexical = lexicalStore[retrieval[r].video],
            ![r].during = @ \/ ingest[retrieval[r].video].pc = "writing"]
  /\ UNCHANGED <<vectorStore, lexicalStore, committed, ingest>>
  /\ UNCHANGED notIngestVars

\* the vector search over the video's chunks; the retrieval returns
RetrieveVector ==
  /\ \E r \in Readers :
       /\ retrieval[r].pc = "lexical_read"
       /\ retrieval' = [retrieval EXCEPT
            ![r].pc = "done",
            ![r].vector = vectorStore[retrieval[r].video],
            ![r].during = @ \/ ingest[retrieval[r].video].pc = "writing"]
  /\ UNCHANGED <<vectorStore, lexicalStore, committed, ingest>>
  /\ UNCHANGED notIngestVars

\* the reader goes on to its next retrieval
RetrieveReturn ==
  /\ \E r \in Readers :
       /\ retrieval[r].pc = "done"
       /\ retrieval' = [retrieval EXCEPT ![r] = IdleRetrieval]
  /\ UNCHANGED <<vectorStore, lexicalStore, committed, ingest>>
  /\ UNCHANGED notIngestVars

IngestNext ==
  \/ ReingestBegin \/ ReingestUpsertVector \/ ReingestUpsertLexical
  \/ ReingestCommit \/ ReingestFail
  \/ RetrieveIssue \/ RetrieveEnter \/ RetrieveLexical \/ RetrieveVector
  \/ RetrieveReturn

----------------------------------------------------------------------------
(* Requests issued one after another on one hook *)

\* the events of the streams: one of each kind that carries sources or
\* video_info, a token, and a done event that carries neither
SeqEvents ==
  { Ev("token", Some(<<"a">>), Null, Null, Null, Null),
    Ev("sources", Null, Some(<<S1>>), Null, Null, Null),
    Ev("metadata", Null, Null, Some("v1"), Null, Null),
    Ev("done", Some(<<"b">>), Some(<<S2>>), Null, Some("s1"), Null),
    Ev("done", Null, Null, Null, Null, Null),
    Ev("cached", Some(<<"b">>), Null, Some("v2"), Null, Null) }

SeqReq(n, op, pc, lines) == [n |-> n, op |-> op, pc |-> pc, lines |-> lines]

SeqInit ==
  /\ seqHook \in Hooks
  /\ seqState = InitialState
  /\ seqFresh = InitialState
  /\ seqReq = SeqReq(0, "none", "idle", 0)

SeqUnused ==
  /\ seqHook = "none"
  /\ seqState = InitialState
  /\ seqFresh = InitialState
  /\ seqReq = SeqReq(0, "none", "unused", 0)

\* ask / followup / summarize / summarizeChapter / generate is called when no
\* request is in flight; seqFresh is what a hook that has served no request
\* before would hold
SeqStart ==
  /\ seqReq.pc \in {"idle", "finished"}
  /\ seqReq.n < MaxSeqRequests
  /\ \E op \in OpsOf(seqHook) :
       /\ seqState' = resetFor(op, seqState)
       /\ seqFresh' = resetFor(op, InitialState)
       /\ seqReq' = SeqReq(seqReq.n + 1, op, "streaming", 0)
  /\ UNCHANGED seqHook
  /\ UNCHANGED notSeqVars

\* the stream yields an event to handleSSEEvent
SeqLine ==
  /\ seqReq.pc = "streaming"
  /\ seqReq.lines < MaxSeqLines
  /\ \E event \in SeqEvents :
       /\ seqState' = handleSSEEvent(seqState, event)
       /\ seqFresh' = handleSSEEvent(seqFresh, event)
  /\ seqReq' = [seqReq EXCEPT !.lines = @ + 1]
  /\ UNCHANGED seqHook
  /\ UNCHANGED notSeqVars

\* streamSSE throws: the catch block
SeqFail ==
  /\ seqReq.pc = "streaming"
  /\ seqState' = catchError(seqState, "network error")
  /\ seqFresh' = catchError(seqFresh, "network error")
  /\ seqReq' = [seqReq EXCEPT !.pc = "finished"]
  /\ UNCHANGED seqHook
  /\ UNCHANGED notSeqVars

\* the stream ends
SeqEnd ==
  /\ seqReq.pc = "streaming"
  /\ seqReq' = [seqReq EXCEPT !.pc = "finished"]
  /\ UNCHANGED <<seqHook, seqState, seqFresh>>
  /\ UNCHANGED notSeqVars

SeqNext == SeqStart \/ SeqLine \/ SeqFail \/ SeqEnd

----------------------------------------------------------------------------
(* streamSSE: the response body, read by read *)

NewLine == "\n"
\* 'data: '
DataPrefix == <<"d", "a", "t", "a", ":", " ">>
\* the text after 'data: ': "a" and "b" stand for JSON objects, "!" for text
\* JSON.parse throws on
WirePayloads == {"a", "b", "!"}
WireLines == { DataPrefix \o <<p>> : p \in WirePayloads } \cup { <<"x">>, <<>> }

\* buffer.split('\n')
RECURSIVE split(_)
split(s) ==
  IF \A i \in 1..Len(s) : s[i] # NewLine THEN <<s>>
  ELSE LET i == CHOOSE j \in 1..Len(s) :
                  s[j] = NewLine /\ \A k \in 1..(j - 1) : s[k] # NewLine
       IN <<SubSeq(s, 1, i - 1)>> \o split(SubSeq(s, i + 1, Len(s)))

\* line.startsWith('data: ')
startsWithData(line) ==
  Len(line) >= Len(DataPrefix) /\ SubSeq(line, 1, Len(DataPrefix)) = DataPrefix
\* line.slice(6)
slice6(line) == SubSeq(line, Len(DataPrefix) + 1, Len(line))
\* JSON.parse: Null when it throws
JSONparse(text) == IF text \in {<<"a">>, <<"b">>} THEN Some(text[1]) ELSE Null

\* for (const line of lines): the events yielded
RECURSIVE yieldLines(_)
yieldLines(lines) ==
  IF lines = <<>> THEN <<>>
  ELSE LET line == Head(lines)
           data == IF startsWithData(line) THEN JSONparse(slice6(line)) ELSE Null
       IN (IF data = Null THEN <<>> ELSE <<data[1]>>) \o yieldLines(Tail(lines))

\* one turn of the while loop on the bytes a read returned
readValue(buffer, value) ==
  LET lines == split(buffer \o value)
  IN [buffer |-> lines[Len(lines)],
      yielded |-> yieldLines(SubSeq(lines, 1, Len(lines) - 1))]

\* the bodies a server may send: up to MaxWireLines lines, each ended by a
\* newline, and possibly a last line that is not
RECURSIVE WireTextsUpTo(_)
WireTextsUpTo(k) ==
  IF k = 0 THEN {<<>>}
  ELSE LET shorter == WireTextsUpTo(k - 1)
       IN shorter \cup { t \o l \o <<NewLine>> : t \in shorter, l \in WireLines }
WireBodies ==
  { t \o tail : t \in WireTextsUpTo(MaxWireLines), tail \in WireLines }

WireInit ==
  /\ wireBody \in WireBodies
  /\ wirePos = 0
  /\ wireBuffer = <<>>
  /\ wireYielded = <<>>
  /\ wirePc = "reading"

WireUnused ==
  /\ wireBody = <<>>
  /\ wirePos = 0
  /\ wireBuffer = <<>>
  /\ wireYielded = <<>>
  /\ wirePc = "unused"

\* reader.read() returns the next bytes, however many the network delivered
WireRead ==
  /\ wirePc = "reading"
  /\ \E n \in 1..(Len(wireBody) - wirePos) :
       LET r == readValue(wireBuffer, SubSeq(wireBody, wirePos + 1, wirePos + n))
       IN /\ wireBuffer' = r.buffer
          /\ wireYielded' = wireYielded \o r.yielded
          /\ wirePos' = wirePos + n
  /\ UNCHANGED <<wireBody, wirePc>>
  /\ UNCHANGED notWireVars

\* reader.read() returns done: break
WireDone ==
  /\ wirePc = "reading"
  /\ wirePos = Len(wireBody)
  /\ wirePc' = "ended"
  /\ UNCHANGED <<wireBody, wirePos, wireBuffer, wireYielded>>
  /\ UNCHANGED notWireVars

WireNext == WireRead \/ WireDone

----------------------------------------------------------------------------
(* The quiz store, every field and every operation *)

\* an operation, its arguments and the store before it
StoreOp(op, args, before) == [op |-> op, args |-> args, before |-> before]

\* the argument lists of each operation
StoreCalls ==
  [op : {"setCurrentQuiz"}, args : { <<q>> : q \in {Null, Some(Quiz(0, <<>>))} }]
  \cup [op : {"setPersistedQuizId"}, args : { <<id>> : id \in {Null, Some("q1")} }]
  \cup [op : {"setIsGenerating", "setIsValidating"}, args : { <<v>> : v \in BOOLEAN }]
  \cup [op : {"setGenerationProgress"}, args : { <<v>> : v \in {0, 50} }]
  \cup [op : {"setSelectedChapters"}, args : { <<c>> : c \in {<<>>, <<"ch1">>} }]
  \cup [op : {"setAnswer"}, args : { <<i, "A">> : i \in StoreIndices }]
  \cup [op : {"addValidationResult"},
        args : { <<i, ValidationResult(TRUE, Null)>> : i \in StoreIndices }]
  \cup [op : {"clearAnswers", "clearValidationResults", "resetQuiz"}, args : {<<>>}]

\* the store after the call
storeAfter(st, call) ==
  LET a == call.args
  IN CASE call.op = "setCurrentQuiz" -> setCurrentQuiz(st, a[1])
       [] call.op = "setPersistedQuizId" -> setPersistedQuizId(st, a[1])
       [] call.op = "setIsGenerating" -> setIsGenerating(st, a[1])
       [] call.op = "setIsValidating" -> setIsValidating(st, a[1])
       [] call.op = "setGenerationProgress" -> setGenerationProgress(st, a[1])
       [] call.op = "setSelectedChapters" -> setQuizSelectedChapters(st, a[1])
       [] call.op = "setAnswer" -> setAnswer(st, a[1], a[2])
       [] call.op = "addValidationResult" -> addValidationResult(st, a[1], a[2])
       [] call.op = "clearAnswers" -> clearAnswers(st)
       [] call.op = "clearValidationResults" -> clearValidationResults(st)
       [] call.op = "resetQuiz" -> resetQuiz(st)

StoreInit ==
  /\ storeState = InitialQuizState(StoreIndices)
  /\ storeOp = StoreOp("none", <<>>, InitialQuizState(StoreIndices))

StoreUnused ==
  /\ storeState = InitialQuizState({})
  /\ storeOp = StoreOp("unused", <<>>, InitialQuizState({}))

\* a component calls one operation of useQuizStore()
StoreCall ==
  /\ storeOp.op # "unused"
  /\ \E call \in StoreCalls :
       /\ storeState' = storeAfter(storeState, call)
       /\ storeOp' = StoreOp(call.op, call.args, storeState)
  /\ UNCHANGED notStoreVars

StoreNext == StoreCall

----------------------------------------------------------------------------
(* QuizDisplay in use: the learner's events and the parent's *)

\* disabled={validationComplete} of the radio inputs and of the textarea
inputDisabled == validationComplete

\* {!validationComplete && (<button ...>)}
submitRendered == ~validationComplete

\* a slip: the button stays enabled while validation is in progress
submitDisabledIgnoresValidating(isValidating) == ~allAnswered
\* disabled={!allAnswered || isValidating}
submitDisabled(isValidating) == ~allAnswered \/ isValidating

\* the branch past both early returns: the quiz and its questions are rendered
questionsRendered == quiz # Null /\ Len(quiz[1].questions) > 0

\* an event, the question index it is about, and the store and the
\* isValidating prop at the time
UseEvent(kind, index, before, validating) ==
  [kind |-> kind, index |-> index, before |-> before, validating |-> validating]

UseInit ==
  /\ quiz \in StoreQuizzes
  /\ quizState = InitialQuizState(StoreIndices)
  /\ shown = NotShown
  /\ quizOp = NoQuizOp
  /\ useValidating = FALSE
  /\ useEvent = UseEvent("none", 0, InitialQuizState(StoreIndices), FALSE)

UseUnused ==
  /\ useValidating = FALSE
  /\ useEvent = UseEvent("unused", 0, InitialQuizState({}), FALSE)

\* the component renders with the props and the store of the moment
UseRender ==
  /\ useEvent.kind # "unused"
  /\ shown' = QuizDisplay(useValidating)
  /\ useEvent' = UseEvent("render", 0, quizState, useValidating)
  /\ UNCHANGED <<quiz, quizState, quizOp, useValidating>>
  /\ UNCHANGED notUseVars

\* onChange of an input of one question, which fires on an enabled input only
UseChange ==
  /\ questionsRendered
  /\ ~inputDisabled
  /\ \E k \in 1..Len(quiz[1].questions), a \in Answers :
       LET i == quiz[1].questions[k].question_index
       IN /\ quizState' = setAnswer(quizState, i, a)
          /\ useEvent' = UseEvent("setAnswer", i, quizState, useValidating)
  /\ UNCHANGED <<quiz, shown, quizOp, useValidating>>
  /\ UNCHANGED notUseVars

\* onClick of the Submit button, which fires on a rendered, enabled button only
UseSubmit ==
  /\ questionsRendered
  /\ submitRendered
  /\ ~submitDisabled(useValidating)
  /\ useEvent' = UseEvent("onSubmitAnswers", 0, quizState, useValidating)
  /\ UNCHANGED <<quiz, quizState, shown, quizOp, useValidating>>
  /\ UNCHANGED notUseVars

\* the parent passes another isValidating
UseParentValidating ==
  /\ useEvent.kind # "unused"
  /\ useValidating' = ~useValidating
  /\ useEvent' = UseEvent("isValidating", 0, quizState, useValidating)
  /\ UNCHANGED <<quiz, quizState, shown, quizOp>>
  /\ UNCHANGED notUseVars

\* the parent stores the result of one question
UseParentResult ==
  /\ \E i \in DOMAIN quizState.validationResults :
       /\ quizState' = addValidationResult(quizState, i, ValidationResult(TRUE, Null))
       /\ useEvent' = UseEvent("addValidationResult", i, quizState, useValidating)
  /\ UNCHANGED <<quiz, shown, quizOp, useValidating>>
  /\ UNCHANGED notUseVars

\* the parent clears the results
UseParentClear ==
  /\ useEvent.kind # "unused"
  /\ quizState' = clearValidationResults(quizState)
  /\ useEvent' = UseEvent("clearValidationResults", 0, quizState, useValidating)
  /\ UNCHANGED <<quiz, shown, quizOp, useValidating>>
  /\ UNCHANGED notUseVars

UseNext ==
  \/ UseRender \/ UseChange \/ UseSubmit \/ UseParentValidating
  \/ UseParentResult \/ UseParentClear

----------------------------------------------------------------------------
(* ChatInput: sending and switching the mode *)

\* String.prototype.trim() over texts of letters and blanks
RECURSIVE trimStart(_)
trimStart(text) ==
  IF text # <<>> /\ Head(text) = " " THEN trimStart(Tail(text)) ELSE text
RECURSIVE trimEnd(_)
trimEnd(text) ==
  IF text # <<>> /\ text[Len(text)] = " "
  THEN trimEnd(SubSeq(text, 1, Len(text) - 1)) ELSE text
trim(text) == trimEnd(trimStart(text))

\* the two marker texts, one symbol each
VideoSummaryRegenerate == <<"__VIDEO_SUMMARY_REGENERATE__">>
QuizGenerate == <<"__QUIZ_GENERATE__">>

\* what handleSend does: the argument of onSend if it is called, and the input
\* afterwards
Sent(arg, input) == [onSend |-> arg, input |-> input]
handleSend(currentMode, input, selectedVideo, isStreaming) ==
  IF currentMode = "video_summary"
  THEN (IF selectedVideo # Null /\ ~isStreaming
        THEN Sent(Some(VideoSummaryRegenerate), input)
        ELSE Sent(Null, input))
  ELSE IF currentMode = "quiz"
  THEN (IF ~isStreaming
        THEN Sent(Some(IF trim(input) # <<>> THEN trim(input) ELSE QuizGenerate), <<>>)
        ELSE Sent(Null, input))
  ELSE IF trim(input) # <<>> /\ ~isStreaming
  THEN Sent(Some(trim(input)), <<>>)
  ELSE Sent(Null, input)

\* const modes: TaskType[] = ['qa', 'video_summary', 'quiz']
modes == <<"qa", "video_summary", "quiz">>

\* handleModeCycle: the mode passed to onModeChange
handleModeCycle(currentMode) ==
  LET found == { k \in 1..Len(modes) : modes[k] = currentMode }
      nextIndex == IF found # {} THEN ((CHOOSE k \in found : TRUE) % Len(modes)) + 1
                   ELSE 1
  IN modes[nextIndex]

\* a slip: the mode button is never disabled
modeButtonDisabledNever(isStreaming) == FALSE
\* disabled={isStreaming} of the mode button
modeButtonDisabled(isStreaming) == isStreaming

\* {isModeHovered && !isStreaming && (...)}: the menu of modes is rendered
modeMenuRendered(isModeHovered, isStreaming) == isModeHovered /\ ~isStreaming

\* disabled={...} of the send button
sendDisabled(currentMode, input, selectedVideo, isStreaming) ==
  IF currentMode = "video_summary" THEN selectedVideo = Null \/ isStreaming
  ELSE IF currentMode = "quiz" THEN isStreaming
  ELSE IF currentMode = "qa" THEN trim(input) = <<>> \/ isStreaming
  ELSE isStreaming

\* the latest callback ChatInput invoked, its argument, and props.isStreaming
\* at the time
SendCall(fn, arg, streaming) == [fn |-> fn, arg |-> arg, streaming |-> streaming]

\* the texts typed into the input
TypedTexts == { <<>>, <<" ">>, <<"q">>, <<" ", "q">> }

SendInit ==
  /\ sendMode = "qa"
  /\ sendInput = <<>>
  /\ sendVideo = Null
  /\ sendStreaming = FALSE
  /\ sendHovered = FALSE
  /\ sendCall = SendCall("none", Null, FALSE)

SendUnused ==
  /\ sendMode = "qa"
  /\ sendInput = <<>>
  /\ sendVideo = Null
  /\ sendStreaming = FALSE
  /\ sendHovered = FALSE
  /\ sendCall = SendCall("unused", Null, FALSE)

\* the outcome of handleSend, onSend leaving the props to the parent
AfterHandleSend ==
  LET sent == handleSend(sendMode, sendInput, sendVideo, sendStreaming)
  IN /\ sendInput' = sent.input
     /\ sendCall' = IF sent.onSend = Null THEN sendCall
                    ELSE SendCall("onSend", sent.onSend, sendStreaming)
     /\ UNCHANGED <<sendMode, sendVideo, sendStreaming, sendHovered>>

\* onChange of the text input, rendered in qa mode, disabled while streaming
SendType ==
  /\ sendCall.fn # "unused"
  /\ sendMode = "qa" /\ ~sendStreaming
  /\ \E text \in TypedTexts : sendInput' = text
  /\ UNCHANGED <<sendMode, sendVideo, sendStreaming, sendHovered, sendCall>>
  /\ UNCHANGED notSendVars

\* Enter in the text input: handleKeyPress
SendEnter ==
  /\ sendCall.fn # "unused"
  /\ sendMode = "qa" /\ ~sendStreaming
  /\ AfterHandleSend
  /\ UNCHANGED notSendVars

\* a click on the send button, which fires on an enabled button only
SendClick ==
  /\ sendCall.fn # "unused"
  /\ ~sendDisabled(sendMode, sendInput, sendVideo, sendStreaming)
  /\ AfterHandleSend
  /\ UNCHANGED notSendVars

\* a click on the mode button; the parent makes the mode passed the current one
SendModeClick ==
  /\ sendCall.fn # "unused"
  /\ ~modeButtonDisabled(sendStreaming)
  /\ sendMode' = handleModeCycle(sendMode)
  /\ sendCall' = SendCall("onModeChange", Some(<<handleModeCycle(sendMode)>>), sendStreaming)
  /\ UNCHANGED <<sendInput, sendVideo, sendStreaming, sendHovered>>
  /\ UNCHANGED notSendVars

\* a click on one mode of the menu
SendMenuClick ==
  /\ modeMenuRendered(sendHovered, sendStreaming)
  /\ \E mode \in TaskTypes :
       /\ sendMode' = mode
       /\ sendCall' = SendCall("onModeChange", Some(<<mode>>), sendStreaming)
  /\ sendHovered' = FALSE
  /\ UNCHANGED <<sendInput, sendVideo, sendStreaming>>
  /\ UNCHANGED notSendVars

\* onMouseEnter and onMouseLeave of the mode switcher
SendHover ==
  /\ sendCall.fn # "unused"
  /\ sendHovered' = ~sendHovered
  /\ UNCHANGED <<sendMode, sendInput, sendVideo, sendStreaming, sendCall>>
  /\ UNCHANGED notSendVars

\* the parent starts or ends streaming
SendParentStreaming ==
  /\ sendCall.fn # "unused"
  /\ sendStreaming' = ~sendStreaming
  /\ UNCHANGED <<sendMode, sendInput, sendVideo, sendHovered, sendCall>>
  /\ UNCHANGED notSendVars

\* the parent passes another selectedVideo
SendParentVideo ==
  /\ sendCall.fn # "unused"
  /\ sendVideo' = IF sendVideo = Null THEN Some("v1") ELSE Null
  /\ UNCHANGED <<sendMode, sendInput, sendStreaming, sendHovered, sendCall>>
  /\ UNCHANGED notSendVars

SendNext ==
  \/ SendType \/ SendEnter \/ SendClick \/ SendModeClick \/ SendMenuClick
  \/ SendHover \/ SendParentStreaming \/ SendParentVideo

----------------------------------------------------------------------------
(* ResizablePanels *)

\* props: defaultSizes, minSizes, and the size of the container in pixels
PanelProps(defaultSizes, minSizes, containerSize) ==
  [defaultSizes |-> defaultSizes, minSizes |-> minSizes,
   containerSize |-> containerSize]

\* default sizes that sum to 100 and minimum sizes that sum to at most 100,
\* in containers where a pixel is one or two percent
PanelPropsSet ==
  { PanelProps(d, m, c) :
      d \in { <<50, 50>>, <<30, 70>>, <<10, 90>> },
      m \in { <<20, 20>>, <<0, 0>>, <<30, 60>>, <<50, 50>> },
      c \in { 50, 100 } }

\* e.clientX or e.clientY, in pixels
Positions == { 0, 20, 35, 50, 80 }

\* handleMouseMove past its early return: the sizes passed to setSizes
handleMouseMove(props, startPos, startSizes, currentPos) ==
  LET delta == currentPos - startPos
      deltaPercent == (delta * 100) \div props.containerSize
      newFirstSize == startSizes[1] + deltaPercent
      newSecondSize == startSizes[2] - deltaPercent
      minFirst == props.minSizes[1]
      minSecond == props.minSizes[2]
  IN IF newFirstSize < minFirst THEN <<minFirst, 100 - minFirst>>
     ELSE IF newSecondSize < minSecond THEN <<100 - minSecond, minSecond>>
     ELSE <<newFirstSize, newSecondSize>>

\* useState(defaultSizes), useState(false) and the refs
PanelInit ==
  /\ panelProps \in PanelPropsSet
  /\ panelSizes = panelProps.defaultSizes
  /\ panelResizing = FALSE
  /\ panelStart = [pos |-> 0, sizes |-> <<0, 0>>]
  /\ panelEvent = "none"

PanelUnused ==
  /\ panelProps = PanelProps(<<50, 50>>, <<20, 20>>, 100)
  /\ panelSizes = <<50, 50>>
  /\ panelResizing = FALSE
  /\ panelStart = [pos |-> 0, sizes |-> <<0, 0>>]
  /\ panelEvent = "unused"

\* handleMouseDown on the divider
PanelMouseDown ==
  /\ panelEvent # "unused"
  /\ \E pos \in Positions :
       IF panelResizing
       THEN UNCHANGED <<panelResizing, panelStart>>
       ELSE /\ panelResizing' = TRUE
            /\ panelStart' = [pos |-> pos, sizes |-> panelSizes]
  /\ panelEvent' = "mousedown"
  /\ UNCHANGED <<panelProps, panelSizes>>
  /\ UNCHANGED notPanelVars

\* a mousemove on the document: handleMouseMove listens while isResizing
PanelMouseMove ==
  /\ panelEvent # "unused"
  /\ \E currentPos \in Positions :
       panelSizes' = IF panelResizing
                     THEN handleMouseMove(panelProps, panelStart.pos,
                                          panelStart.sizes, currentPos)
                     ELSE panelSizes
  /\ panelEvent' = "mousemove"
  /\ UNCHANGED <<panelProps, panelResizing, panelStart>>
  /\ UNCHANGED notPanelVars

\* a mouseup on the document: handleMouseUp listens while isResizing
PanelMouseUp ==
  /\ panelEvent # "unused"
  /\ panelResizing' = FALSE
  /\ panelEvent' = "mouseup"
  /\ UNCHANGED <<panelProps, panelSizes, panelStart>>
  /\ UNCHANGED notPanelVars

PanelNext == PanelMouseDown \/ PanelMouseMove \/ PanelMouseUp

----------------------------------------------------------------------------
(* The Hybrid Retriever: reciprocal-rank fusion *)

\* the constant of 1/(rank + constant)
RRFConstant == 60

\* chunks, named by their sequence index
FuseChunks == 1..MaxFuseChunks

\* a result list: distinct chunks, best first
RECURSIVE ResultListsUpTo(_)
ResultListsUpTo(k) ==
  IF k = 0 THEN {<<>>}
  ELSE LET shorter == ResultListsUpTo(k - 1)
       IN shorter \cup
          UNION { { Append(l, c) : c \in { d \in FuseChunks :
                                            \A j \in 1..Len(l) : l[j] # d } } :
                  l \in shorter }

\* the rank of a chunk in a list, from 1; 0 if the list does not hold it
rankIn(list, chunk) ==
  IF \E k \in 1..Len(list) : list[k] = chunk
  THEN CHOOSE k \in 1..Len(list) : list[k] = chunk
  ELSE 0

\* the product of rank + constant over the ranks from 1 to n: scores are
\* carried as exact multiples of its reciprocal
RECURSIVE scoreUnit(_)
scoreUnit(n) == IF n = 0 THEN 1 ELSE (n + RRFConstant) * scoreUnit(n - 1)

\* the term of one list: 1/(rank + constant), nothing for an absent chunk
reciprocalRank(list, chunk) ==
  IF rankIn(list, chunk) = 0 THEN 0
  ELSE scoreUnit(MaxFuseChunks) \div (rankIn(list, chunk) + RRFConstant)

\* a misreading: the ranks themselves are summed
fusedScoreSumsRanks(lexical, vector, chunk) ==
  (rankIn(lexical, chunk) + rankIn(vector, chunk)) * scoreUnit(MaxFuseChunks)
\* the fused score of a chunk: the sum over whichever lists it appears in
fusedScore(lexical, vector, chunk) ==
  reciprocalRank(lexical, chunk) + reciprocalRank(vector, chunk)

Candidate(chunk, score) == [chunk |-> chunk, score |-> score]

\* the candidates sorted by score, highest first, ties by earlier chunk
\* sequence index
RECURSIVE sortCandidates(_)
sortCandidates(cands) ==
  IF cands = {} THEN <<>>
  ELSE LET best == CHOOSE c \in cands :
                     \A d \in cands :
                       \/ c.score > d.score
                       \/ (c.score = d.score /\ c.chunk <= d.chunk)
       IN <<best>> \o sortCandidates(cands \ {best})

\* the chunks of either list, each with its fused score, sorted
fuse(lexical, vector) ==
  sortCandidates({ Candidate(c, fusedScore(lexical, vector, c)) :
                   c \in { lexical[k] : k \in 1..Len(lexical) }
                         \cup { vector[k] : k \in 1..Len(vector) } })

\* the fused list truncated to the initial pool size
truncate(fusedList, initialK) ==
  SubSeq(fusedList, 1, IF initialK < Len(fusedList) THEN initialK ELSE Len(fusedList))

FuseInit ==
  /\ fuseIn \in [lexical : ResultListsUpTo(MaxFuseChunks),
                 vector : ResultListsUpTo(MaxFuseChunks),
                 initialK : 0..MaxFuseChunks]
  /\ fused = <<>>
  /\ fuseOut = <<>>
  /\ fusePc = "searched"

FuseUnused ==
  /\ fuseIn = [lexical |-> <<>>, vector |-> <<>>, initialK |-> 0]
  /\ fused = <<>>
  /\ fuseOut = <<>>
  /\ fusePc = "unused"

\* retrieve, past the two searches
FuseRetrieve ==
  /\ fusePc = "searched"
  /\ fused' = fuse(fuseIn.lexical, fuseIn.vector)
  /\ fuseOut' = truncate(fuse(fuseIn.lexical, fuseIn.vector), fuseIn.initialK)
  /\ fusePc' = "returned"
  /\ UNCHANGED fuseIn
  /\ UNCHANGED notFuseVars

FuseNext == FuseRetrieve

----------------------------------------------------------------------------
(* Specifications *)

\* the remaining components, left out
ThirdUnused ==
  /\ SeqUnused /\ WireUnused /\ StoreUnused /\ UseUnused /\ SendUnused
  /\ PanelUnused /\ FuseUnused

\* the components a specification leaves out
EarlierUnused == SSEUnused /\ HookUnused /\ CiteUnused
SecondUnused ==
  QuizUnused /\ NumInputUnused /\ ChatUnused /\ SummaryUnused /\ IngestUnused
LaterUnused == SecondUnused /\ ThirdUnused

\* one useSSE.startStream call
SSEOnlyInit == SSEInit /\ HookUnused /\ CiteUnused /\ LaterUnused
SpecSSE == SSEOnlyInit /\ [][SSENext]_vars

\* one hook instance and its requests
HookOnlyInit == SSEUnused /\ HookInit /\ CiteUnused /\ LaterUnused
SpecHook == HookOnlyInit /\ [][HookNext]_vars

\* either streaming client
StreamInit == \/ SSEInit /\ HookUnused /\ CiteUnused /\ LaterUnused
              \/ SSEUnused /\ HookInit /\ CiteUnused /\ LaterUnused
StreamNext == SSENext \/ HookNext
SpecStream == StreamInit /\ [][StreamNext]_vars

\* one rendered message
CiteOnlyInit == SSEUnused /\ HookUnused /\ CiteInit /\ LaterUnused
SpecCite == CiteOnlyInit /\ [][CiteNext]_vars

\* one QuizDisplay over the results stored
QuizDisplayOnlyInit ==
  /\ EarlierUnused /\ QuizDisplayInit /\ NumInputUnused /\ ChatUnused
  /\ SummaryUnused /\ IngestUnused /\ ThirdUnused
SpecQuizDisplay == QuizDisplayOnlyInit /\ [][QuizRender]_vars

\* the quiz store and the sessions that use it
QuizStoreOnlyInit ==
  /\ EarlierUnused /\ QuizStoreInit /\ NumInputUnused /\ ChatUnused
  /\ SummaryUnused /\ IngestUnused /\ ThirdUnused
SpecQuizStore == QuizStoreOnlyInit /\ [][QuizStoreNext]_vars

\* one ChatInput in quiz mode
NumInputOnlyInit ==
  /\ EarlierUnused /\ QuizUnused /\ NumInputInit /\ ChatUnused
  /\ SummaryUnused /\ IngestUnused /\ ThirdUnused
SpecNumInput == NumInputOnlyInit /\ [][NumInputNext]_vars

\* the chat store
ChatOnlyInit ==
  /\ EarlierUnused /\ QuizUnused /\ NumInputUnused /\ ChatInit
  /\ SummaryUnused /\ IngestUnused /\ ThirdUnused
SpecChat == ChatOnlyInit /\ [][ChatNext]_vars

\* summarize against the Summary Cache
SummaryOnlyInit ==
  /\ EarlierUnused /\ QuizUnused /\ NumInputUnused /\ ChatUnused
  /\ SummaryInit /\ IngestUnused /\ ThirdUnused
SpecSummary == SummaryOnlyInit /\ [][SummaryNext]_vars

\* re-ingestion against concurrent retrievals
IngestOnlyInit ==
  /\ EarlierUnused /\ QuizUnused /\ NumInputUnused /\ ChatUnused
  /\ SummaryUnused /\ IngestInit /\ ThirdUnused
SpecIngest == IngestOnlyInit /\ [][IngestNext]_vars

\* the remaining components, one specification each
SeqOnlyInit ==
  /\ EarlierUnused /\ SecondUnused /\ WireUnused /\ StoreUnused /\ UseUnused
  /\ SendUnused /\ PanelUnused /\ FuseUnused /\ SeqInit
SpecSeq == SeqOnlyInit /\ [][SeqNext]_vars

WireOnlyInit ==
  /\ EarlierUnused /\ SecondUnused /\ SeqUnused /\ StoreUnused /\ UseUnused
  /\ SendUnused /\ PanelUnused /\ FuseUnused /\ WireInit
SpecWire == WireOnlyInit /\ [][WireNext]_vars

StoreOnlyInit ==
  /\ EarlierUnused /\ SecondUnused /\ SeqUnused /\ WireUnused /\ UseUnused
  /\ SendUnused /\ PanelUnused /\ FuseUnused /\ StoreInit
SpecStore == StoreOnlyInit /\ [][StoreNext]_vars

UseOnlyInit ==
  /\ EarlierUnused /\ NumInputUnused /\ ChatUnused /\ SummaryUnused
  /\ IngestUnused /\ SeqUnused /\ WireUnused /\ StoreUnused /\ SendUnused
  /\ PanelUnused /\ FuseUnused /\ UseInit
SpecUse == UseOnlyInit /\ [][UseNext]_vars

SendOnlyInit ==
  /\ EarlierUnused /\ SecondUnused /\ SeqUnused /\ WireUnused /\ StoreUnused
  /\ UseUnused /\ PanelUnused /\ FuseUnused /\ SendInit
SpecSend == SendOnlyInit /\ [][SendNext]_vars

PanelOnlyInit ==
  /\ EarlierUnused /\ SecondUnused /\ SeqUnused /\ WireUnused /\ StoreUnused
  /\ UseUnused /\ SendUnused /\ FuseUnused /\ PanelInit
SpecPanel == PanelOnlyInit /\ [][PanelNext]_vars

FuseOnlyInit ==
  /\ EarlierUnused /\ SecondUnused /\ SeqUnused /\ WireUnused /\ StoreUnused
  /\ UseUnused /\ SendUnused /\ PanelUnused /\ FuseInit
SpecFuse == FuseOnlyInit /\ [][FuseNext]_vars

Init == \/ SSEInit /\ HookUnused /\ CiteUnused /\ LaterUnused
        \/ SSEUnused /\ HookInit /\ CiteUnused /\ LaterUnused
        \/ SSEUnused /\ HookUnused /\ CiteInit /\ LaterUnused
        \/ EarlierUnused /\ QuizDisplayInit /\ NumInputUnused /\ ChatUnused
             /\ SummaryUnused /\ IngestUnused /\ ThirdUnused
        \/ EarlierUnused /\ QuizStoreInit /\ NumInputUnused /\ ChatUnused
             /\ SummaryUnused /\ IngestUnused /\ ThirdUnused
        \/ EarlierUnused /\ QuizUnused /\ NumInputInit /\ ChatUnused
             /\ SummaryUnused /\ IngestUnused /\ ThirdUnused
        \/ EarlierUnused /\ QuizUnused /\ NumInputUnused /\ ChatInit
             /\ SummaryUnused /\ IngestUnused /\ ThirdUnused
        \/ EarlierUnused /\ QuizUnused /\ NumInputUnused /\ ChatUnused
             /\ SummaryInit /\ IngestUnused /\ ThirdUnused
        \/ EarlierUnused /\ QuizUnused /\ NumInputUnused /\ ChatUnused
             /\ SummaryUnused /\ IngestInit /\ ThirdUnused
        \/ EarlierUnused /\ SecondUnused /\ WireUnused /\ StoreUnused
             /\ UseUnused /\ SendUnused /\ PanelUnused /\ FuseUnused
             /\ SeqInit
        \/ EarlierUnused /\ SecondUnused /\ SeqUnused /\ StoreUnused
             /\ UseUnused /\ SendUnused /\ PanelUnused /\ FuseUnused
             /\ WireInit
        \/ EarlierUnused /\ SecondUnused /\ SeqUnused /\ WireUnused
             /\ UseUnused /\ SendUnused /\ PanelUnused /\ FuseUnused
             /\ StoreInit
        \/ EarlierUnused /\ NumInputUnused /\ ChatUnused /\ SummaryUnused
             /\ IngestUnused /\ SeqUnused /\ WireUnused /\ StoreUnused
             /\ SendUnused /\ PanelUnused /\ FuseUnused /\ UseInit
        \/ EarlierUnused /\ SecondUnused /\ SeqUnused /\ WireUnused
             /\ StoreUnused /\ UseUnused /\ PanelUnused /\ FuseUnused
             /\ SendInit
        \/ EarlierUnused /\ SecondUnused /\ SeqUnused /\ WireUnused
             /\ StoreUnused /\ UseUnused /\ SendUnused /\ FuseUnused
             /\ PanelInit
        \/ EarlierUnused /\ SecondUnused /\ SeqUnused /\ WireUnused
             /\ StoreUnused /\ UseUnused /\ SendUnused /\ PanelUnused
             /\ FuseInit
Next == \/ SSENext \/ HookNext \/ CiteNext \/ QuizRender \/ QuizStoreNext
        \/ NumInputNext \/ ChatNext \/ SummaryNext \/ IngestNext \/ SeqNext
        \/ WireNext \/ StoreNext \/ UseNext \/ SendNext \/ PanelNext
        \/ FuseNext
Spec == Init /\ [][Next]_vars

----------------------------------------------------------------------------
(* Claims *)

\* the step just taken handed a parsed event of type t to handleSSEEvent
Handled(t) ==
  /\ last'.seq # last.seq
  /\ last'.line.kind = "data"
  /\ last'.line.ev.type = t

\* C1: within one stream, once a terminal event (done, error or cached) has
\* been handled, no later event of that same stream changes the stream state.
C1_NoEventAfterTerminal ==
  [][\A r \in Requests :
       (req[r].terminal /\ last'.seq # last.seq /\ last'.req = r) => state' = state]_vars

CountCalls(cb) == Cardinality({ k \in 1..Len(sseCalls) : sseCalls[k].cb = cb })

\* C2: for each call of startStream exactly one of onDone and onError is
\* invoked, exactly once and never both, whatever the callbacks do.
C2_ExactlyOneTerminalCallback ==
  ssePc \in {"resolved", "rejected"} => CountCalls("onDone") + CountCalls("onError") = 1

SawDoneMarker == \E k \in 1..Len(sseLog) : sseLog[k] = DoneMarker
SawErrorEvent ==
  \E k \in 1..Len(sseLog) : sseLog[k].kind = "data" /\ sseLog[k].ev.type = "error"

\* C3: onDone is invoked only when the stream completed successfully: never
\* for a stream that carried an error event or that ended before the
\* terminal marker.
C3_NoPartialFinalized ==
  (CountCalls("onDone") > 0 /\ sseContent # <<>>) => (SawDoneMarker /\ ~SawErrorEvent)

\* the content fields of the token events among the given lines, concatenated
RECURSIVE ConcatTokens(_)
ConcatTokens(lines) ==
  IF lines = <<>> THEN <<>>
  ELSE LET l == Head(lines)
       IN (IF l.kind = "data" /\ l.ev.type = "token" /\ l.ev.content # Null
           THEN l.ev.content[1] ELSE <<>>) \o ConcatTokens(Tail(lines))

\* C4 (as claimed): at every point of a stream the accumulated content, in
\* useSSE and in StreamState, is the concatenation in arrival order of the
\* token events received so far for that request.
C4_ContentIsTokensReceived ==
  /\ sseContent = ConcatTokens(sseLog)
  /\ \A r \in Requests : req[r].pc = "streaming" => state.content = req[r].tokens

\* C4 (amended): useSSE's content is the concatenation in arrival order of the
\* token events received so far; StreamState.content is the text of the latest
\* cached event, if one was handled since the latest request start on the hook,
\* followed by the token contents handled after it, in arrival order.
C4_ContentIsTokensSinceReplaced ==
  /\ sseContent = ConcatTokens(sseLog)
  /\ state.content = since

C4_Witness ==
  /\ last.seq = 2
  /\ IsToken(last.line)
  /\ req[1].tokens = <<"a">>
  /\ state.content = <<"b", "a">>

\* C5: handling an error event sets isStreaming to false and error to a
\* message and leaves content, sources, videoInfo and sessionId as they were;
\* a failed fetch also ends with isStreaming false and an error message.
C5_ErrorKeepsDelivered ==
  [][/\ Handled("error") =>
          /\ state'.isStreaming = FALSE
          /\ state'.error # Null
          /\ state'.content = state.content
          /\ state'.sources = state.sources
          /\ state'.videoInfo = state.videoInfo
          /\ state'.sessionId = state.sessionId
     /\ \A r \in Requests :
          (req[r].pc = "fetching" /\ req'[r].pc = "finished") =>
             (state'.isStreaming = FALSE /\ state'.error # Null)]_vars

C5_Witness ==
  /\ last.seq = 2
  /\ last.line = Data(Ev("error", Some(<<"e">>), Null, Null, Null, Null))
  /\ req[1].tokens = <<"a">>
  /\ state.content = <<"a">>
  /\ state.error = Some(<<"e">>)
  /\ ~state.isStreaming

\* C6: handling a cached event ends the stream and sets the content to
\* exactly the text the event carries, whatever had been accumulated.
C6_CachedReplacesContent ==
  [][Handled("cached") =>
       /\ state'.isStreaming = FALSE
       /\ state'.content = (IF last'.line.ev.content = Null THEN <<>>
                            ELSE last'.line.ev.content[1])]_vars

C6_Witness ==
  /\ last.seq = 2
  /\ last.line = Data(Ev("cached", Some(<<"b">>), Null, Some("v2"), Null, Null))
  /\ req[1].tokens = <<"a">>
  /\ state.content = <<"b">>
  /\ ~state.isStreaming

\* the latest click was on a marker [n] with n inside the message's sources
ClickedInRange ==
  /\ click.part # 0
  /\ message.sources # Null
  /\ click.n \in 1..Len(message.sources[1])

EffectFor(source) ==
  IF seekMode THEN Seek(source.start_time)
              ELSE Open(source.video_url, source.start_time)

\* C7 (as claimed): activating [n], 1 <= n <= number of sources, resolves to
\* the source whose index field equals n and seeks to (or opens the video at)
\* that source's start_time.
C7_ResolvesByIndexField ==
  ClickedInRange =>
    \E k \in 1..Len(message.sources[1]) :
      /\ message.sources[1][k].index = click.n
      /\ click.effect = EffectFor(message.sources[1][k])

\* C7 (amended): activating [n], 1 <= n <= number of sources, resolves to the
\* n-th entry of the sources list and seeks to (or opens the video at) that
\* entry's start_time; that entry is the source whose index field is n when
\* the list is numbered 1..M in order.
C7_ResolvesByPosition ==
  ClickedInRange =>
    LET sources == message.sources[1] IN
      /\ click.effect = EffectFor(sources[click.n])
      /\ (\A k \in 1..Len(sources) : sources[k].index = k) =>
            sources[click.n].index = click.n

C7_Witness ==
  /\ ClickedInRange
  /\ click.n = 2
  /\ message.sources[1] = <<Chunk(2), Chunk(1)>>
  /\ click.effect = Seek(10)

\* C8: a marker [n] with n outside 1..number of sources is left as literal
\* text: it is not rendered as a clickable citation, and it triggers no seek
\* and no URL open.
C8_OutOfRangeLeftLiteral ==
  /\ \A k \in 1..Len(Rendered) :
       Rendered[k].kind = "button" =>
         (message.sources # Null /\ Rendered[k].n \in 1..Len(message.sources[1]))
  /\ (click.part # 0 /\ ~ClickedInRange) => click.effect = NoEffect

\* the markers of a text that lie inside 1..nChunks, in order
ValidMarkers(text, nChunks) ==
  SelectSeq(MarkerValues(text, 1), LAMBDA n : n >= 1 /\ n <= nChunks)

FirstPosition(seq, v) ==
  CHOOSE k \in 1..Len(seq) : seq[k] = v /\ \A j \in 1..(k - 1) : seq[j] # v

\* C9: only the sources cited in the final text are emitted, renumbered 1..M
\* in order of first appearance, the text markers are renumbered the same way,
\* and every marker resolves to its original source after the remap; for
\* [2] [1] [2] the list has 2 entries and entry 1 is the original source 2.
C9_RemapConsistent ==
  gen.kind = "synthesized" =>
    LET orig == MarkerValues(gen.text, 1)
        valid == ValidMarkers(gen.text, gen.chunks)
        emitted == message.sources[1]
        final == MarkerValues(message.content, 1)
    IN /\ Len(emitted) = Cardinality({ valid[k] : k \in 1..Len(valid) })
       /\ \A j \in 1..Len(emitted) :
            /\ emitted[j].index = j
            /\ \E n \in { valid[k] : k \in 1..Len(valid) } :
                 emitted[j].start_time = Chunk(n).start_time
       /\ \A i, j \in 1..Len(emitted) :
            i < j => FirstPosition(valid, emitted[i].start_time \div 10)
                       < FirstPosition(valid, emitted[j].start_time \div 10)
       /\ Len(final) = Len(orig)
       /\ \A k \in 1..Len(orig) :
            IF orig[k] >= 1 /\ orig[k] <= gen.chunks
            THEN handleCitationClick(final[k], message.sources, seekMode)
                   = EffectFor(Chunk(orig[k]))
            ELSE handleCitationClick(final[k], message.sources, seekMode) = NoEffect
       /\ (click.part # 0 /\ click.n >= 1 /\ click.n <= Len(emitted)) =>
            click.effect = EffectFor(Chunk(Cited(gen.text, gen.chunks)[click.n]))
       /\ (gen.text = <<"[", "2", "]", "[", "1", "]", "[", "2", "]">> /\ gen.chunks = 2) =>
            /\ Len(emitted) = 2
            /\ emitted[1].start_time = Chunk(2).start_time
            /\ message.content = <<"[", "1", "]", "[", "2", "]", "[", "1", "]">>

C9_Witness ==
  /\ gen.kind = "synthesized"
  /\ gen.text = <<"[", "2", "]", "[", "1", "]", "[", "2", "]">>
  /\ gen.chunks = 2
  /\ Len(message.sources[1]) = 2
  /\ seekMode
  /\ click.part = 3
  /\ click.effect = Seek(20)

\* C10: after a done event the content held is the done event's content field
\* and the sources held are the done event's sources.
C10_DoneCarriesFinalAnswer ==
  [][(Handled("done") /\ last'.line.ev.content # Null /\ last'.line.ev.sources # Null) =>
       /\ state'.content = last'.line.ev.content[1]
       /\ state'.sources = last'.line.ev.sources[1]]_vars

\* the score the stored result gives the k-th question of the quiz: for a
\* multiple-choice question 100 if is_correct and 0 otherwise, for an
\* open-ended one its score, and nothing while no result is stored
StoredScore(k) ==
  LET q == quiz[1].questions[k]
      stored == quizState.validationResults[q.question_index]
  IN IF stored = Null THEN 0
     ELSE IF q.question_type = "mcq" THEN (IF stored[1].is_correct THEN 100 ELSE 0)
     ELSE IF stored[1].llm_score = Null THEN 0 ELSE stored[1].llm_score[1]

RECURSIVE StoredScoreSumUpTo(_)
StoredScoreSumUpTo(k) == IF k = 0 THEN 0 ELSE StoredScoreSumUpTo(k - 1) + StoredScore(k)
StoredScoreSum == StoredScoreSumUpTo(Len(quiz[1].questions))

\* C11 (as claimed): the overall percentage calculateScore gives equals the sum
\* of the per-question scores of the stored results divided by
\* 100 x question count, as a percentage.
C11_ScoreIsExactRatio ==
  (shown.kind = "quiz" /\ shown.score # Null) =>
    shown.score[1] * (100 * Len(quiz[1].questions)) = 100 * StoredScoreSum

\* C11 (amended): when at least one result is stored, the percentage
\* calculateScore gives is the sum of the per-question scores of the stored
\* results divided by 100 x question count, as a percentage rounded to the
\* nearest whole number; when no result is stored it gives no score.
C11_ScoreIsRoundedRatio ==
  shown.kind = "quiz" =>
    IF MapSize(quizState.validationResults) = 0 THEN shown.score = Null
    ELSE /\ shown.score # Null
         /\ LET n == Len(quiz[1].questions)
                d == 2 * (shown.score[1] * n - StoredScoreSum)
            IN d <= n /\ -d <= n

C11_Witness ==
  /\ shown.kind = "quiz"
  /\ Len(quiz[1].questions) = 3
  /\ StoredScoreSum = 100
  /\ shown.score = Some(33)

\* four multiple-choice questions, three of them answered correctly, and one
\* open-ended question scored 80, all validated and rendered
QuizOfFourAndOne ==
  /\ shown.kind = "quiz"
  /\ quiz[1].questions = DenseQuestions(TypeSeq(5, 4))
  /\ Cardinality({ i \in 0..3 : quizState.validationResults[i] # Null }) = 4
  /\ Cardinality({ i \in 0..3 : /\ quizState.validationResults[i] # Null
                                /\ quizState.validationResults[i][1].is_correct }) = 3
  /\ quizState.validationResults[4] # Null
  /\ quizState.validationResults[4][1].llm_score = Some(80)

\* C12 (as claimed): for 4 MCQ questions of which 3 are correct and 1
\* open-ended question scored 80, the overall quiz score is 95%.
C12_FourAndOneScores95 == QuizOfFourAndOne => shown.score = Some(95)

\* C12 (amended): for 4 MCQ questions of which 3 are correct and 1 open-ended
\* question scored 80, the overall quiz score is (300 + 80) / 500 x 100 = 76%.
C12_FourAndOneScores76 == QuizOfFourAndOne => shown.score = Some(76)

C12_Witness == QuizOfFourAndOne /\ StoredScoreSum = 380 /\ shown.score = Some(76)

\* C13: the question count QuizDisplay shows (the header badge, the score line
\* and the validation progress line) is the number of questions present in
\* quiz.questions.
C13_ShownCountIsQuestionCount ==
  shown.kind = "quiz" =>
    /\ shown.badge = Len(quiz[1].questions)
    /\ shown.scoreLine # Null => shown.scoreLine[1].total = Len(quiz[1].questions)
    /\ shown.progressLine # Null => shown.progressLine[1].total = Len(quiz[1].questions)

\* what the block of the k-th question shows
ShownFor(k) == renderQuestion(quiz[1].questions[k], k - 1)
QuestionPositions == IF quiz = Null THEN {} ELSE 1..Len(quiz[1].questions)

\* C14: setAnswer(i, a) and addValidationResult(i, r) change only the entry
\* stored under index i, and the answer and result shown for a question are
\* those stored under the question's own question_index: after setAnswer(i, a)
\* the questions whose question_index is i show a and every other question
\* shows what it showed before, and likewise for addValidationResult(i, r).
C14_IndexCorrelatesAnswer ==
  [][/\ quizOp'.op = "setAnswer" =>
          /\ quizState'.userAnswers[quizOp'.index] = quizOp'.value
          /\ \A j \in DOMAIN quizState.userAnswers :
               j # quizOp'.index => quizState'.userAnswers[j] = quizState.userAnswers[j]
          /\ quizState'.validationResults = quizState.validationResults
          /\ \A k \in QuestionPositions :
               ShownFor(k)' = IF quiz[1].questions[k].question_index = quizOp'.index
                              THEN [ShownFor(k) EXCEPT !.answer = quizOp'.value[1]]
                              ELSE ShownFor(k)
     /\ quizOp'.op = "addValidationResult" =>
          /\ quizState'.validationResults[quizOp'.index] = quizOp'.value
          /\ \A j \in DOMAIN quizState.validationResults :
               j # quizOp'.index =>
                 quizState'.validationResults[j] = quizState.validationResults[j]
          /\ quizState'.userAnswers = quizState.userAnswers
          /\ \A k \in QuestionPositions :
               ShownFor(k)' = IF quiz[1].questions[k].question_index = quizOp'.index
                              THEN [ShownFor(k) EXCEPT !.result = quizOp'.value]
                              ELSE ShownFor(k)]_vars

C14_Witness ==
  /\ quiz # Null
  /\ quiz[1].questions = <<Question(1, "mcq"), Question(0, "mcq")>>
  /\ quizOp.op = "setAnswer"
  /\ quizOp.index = 1
  /\ quizState.userAnswers[0] = Some("A")
  /\ quizState.userAnswers[1] = Some("B")
  /\ quizState.validationResults[0] # Null
  /\ ShownFor(1).answer = "B"
  /\ ShownFor(2).answer = "A"

\* C15: two independent users of the store share no state: what one session
\* writes through the store never shows in what the other session reads.
C15_SessionsShareNoState ==
  [][\A s, t \in Sessions :
       (s # t /\ quizOp'.session = s) => useQuizStore(t)' = useQuizStore(t)]_vars

\* the step just taken was a step of request q: its start, a line of its
\* stream, or its end
StepOf(q) == req'[q] # req[q] \/ (last'.seq # last.seq /\ last'.req = q)

\* C16: when two requests issued through the same hook are in flight at once,
\* the content and sources held for one are never mixed with, or reset by,
\* the other: no step of another request changes them while it is streaming.
C16_RequestsShareNoState ==
  [][\A r, q \in Requests :
       (r # q /\ req[r].pc = "streaming" /\ ~req[r].terminal /\ StepOf(q)) =>
         (state'.content = state.content /\ state'.sources = state.sources)]_vars

\* C17: every value ChatInput passes to onQuizNumQuestionsChange lies in 1..20,
\* whatever the user clicks and types.
C17_NumQuestionsInRange ==
  numInput.passed # Null => numInput.passed[1] \in 1..20

IsPrefix(s, l) == Len(s) <= Len(l) /\ SubSeq(l, 1, Len(s)) = s

\* C18 (as claimed): addMessage appends the new message at the end of the
\* list, no chat-store operation modifies, reorders or removes a message
\* already in the list, and the streaming operations leave the list unchanged.
C18_MessagesAppendOnly ==
  [][/\ IsPrefix(chatState.messages, chatState'.messages)
     /\ chatOp'.op = "addMessage" =>
          chatState'.messages = Append(chatState.messages, chatOp'.arg[1])
     /\ chatOp'.op \in {"appendStreamingContent", "resetStreamingContent", "setIsStreaming"} =>
          chatState'.messages = chatState.messages]_vars

\* C18 (amended): addMessage appends the new message at the end of the list;
\* setMessages replaces the list by the list it is given; no other chat-store
\* operation modifies, reorders or removes a message already in the list, and
\* the streaming operations leave the list unchanged.
C18_MessagesAppendOnlyButSetMessages ==
  [][/\ chatOp'.op = "addMessage" =>
          chatState'.messages = Append(chatState.messages, chatOp'.arg[1])
     /\ chatOp'.op = "setMessages" => chatState'.messages = chatOp'.arg[1]
     /\ chatOp'.op \notin {"addMessage", "setMessages"} =>
          chatState'.messages = chatState.messages]_vars

C18_Witness ==
  /\ chatOp.op = "addMessage"
  /\ chatOp.arg = Some(ChatMessage("m2", "assistant"))
  /\ chatState.messages = <<ChatMessage("m1", "user"), ChatMessage("m2", "assistant")>>
  /\ chatState.streamingContent = <<"a">>

C20_ReingestionAtomic ==
  /\ \A r \in Readers :
       retrieval[r].pc = "done" =>
         \E ver \in Versions :
           /\ retrieval[r].lexical = ChunkIds(retrieval[r].video, ver)
           /\ retrieval[r].vector = ChunkIds(retrieval[r].video, ver)
  /\ \A v \in Videos :
       (ingest[v].pc = "idle" /\ ingest[v].outcome = "failed") =>
         /\ <<vectorStore[v], lexicalStore[v]>> = ingest[v].prior
         /\ vectorStore[v] = ChunkIds(v, committed[v])

C20_Witness ==
  \E r \in Readers :
    /\ retrieval[r].pc = "done"
    /\ retrieval[r].during
    /\ retrieval[r].video = "v1"
    /\ retrieval[r].vector = ChunkIds("v1", 2)
    /\ ingest["v1"].outcome = "committed"

\* the types useSSE.startStream and handleSSEEvent have a branch for
SSEKnownTypes == {"token", "progress", "validation", "sources", "session_id", "quiz_id"}
HookKnownTypes == {"token", "sources", "metadata", "done", "cached", "error"}
\* a data line that is not valid JSON, or whose type is not one of known
Unrecognized(line, known) ==
  \/ line.kind = "bad_json"
  \/ line.kind = "data" /\ line.ev.type \notin known

\* C22: a data line that is not valid JSON, or whose JSON has a type outside
\* the known event kinds, leaves the accumulated content and the whole stream
\* state unchanged, neither ends the stream nor raises an error, and a token
\* that arrives afterwards is still appended, in useSSE and in the hooks.
C22_UnrecognizedIgnored ==
  [][/\ (sseLog' # sseLog /\ Unrecognized(sseLog'[Len(sseLog')], SSEKnownTypes)) =>
          /\ UNCHANGED <<ssePc, sseContent, sseSources, sseSessionId, sseQuizId, sseCalls>>
          /\ ssePc = "reading"
     /\ (sseLog' # sseLog /\ IsToken(sseLog'[Len(sseLog')])) =>
          sseContent' = sseContent \o OrElse(sseLog'[Len(sseLog')].ev.content, <<>>)
     /\ (last'.seq # last.seq /\ Unrecognized(last'.line, HookKnownTypes)) =>
          /\ state' = state
          /\ req' = req
          /\ req[last'.req].pc = "streaming"
     /\ (last'.seq # last.seq /\ IsToken(last'.line)) =>
          state'.content = state.content \o OrElse(last'.line.ev.content, <<>>)]_vars

C22_Witness ==
  /\ ssePc = "reading"
  /\ sseLog = <<BadJson, Data(Ev("token", Some(<<"a">>), Null, Null, Null, Null))>>
  /\ sseContent = <<"a">>
  /\ sseCalls = <<Call("onToken", <<<<"a">>>>)>>

\* C23: once the response stream of every request started on a hook has ended
\* (with a terminal event, without one, or by a failure), isStreaming is false.
C23_EndedStreamNotStreaming ==
  ((\A r \in Requests : req[r].pc \in {"idle", "finished"})
     /\ (\E r \in Requests : req[r].pc = "finished")) => ~state.isStreaming

\* C24: when a request on a hook completes, the sources and the videoInfo held
\* in the hook state were delivered by that request's own stream or are empty:
\* they are what a hook that served no earlier request would hold.
C24_NothingSurvivesFromEarlierRequest ==
  seqReq.pc = "finished" =>
    /\ seqState.sources = seqFresh.sources
    /\ seqState.videoInfo = seqFresh.videoInfo

\* the data lines among the first n characters of the body, in order: the
\* payload of every line that starts with 'data: ' and parses; with the last
\* line counted only if it is ended by a newline, or also if it is not
DataLinesOf(text, withUnended) ==
  LET lines == split(text)
  IN yieldLines(IF withUnended THEN lines ELSE SubSeq(lines, 1, Len(lines) - 1))

\* C27: the events streamSSE delivers depend only on the bytes received, not
\* on how they are split into reads: at every point they are the data lines
\* received so far, each once and in the order of the lines, and when the
\* stream has ended every data line received has been delivered.
C27_DeliveryIndependentOfReads ==
  /\ wireYielded = DataLinesOf(SubSeq(wireBody, 1, wirePos), FALSE)
  /\ wirePc = "ended" => wireYielded = DataLinesOf(wireBody, TRUE)

\* C29: resetQuiz clears the current quiz, the persisted quiz id, the
\* generating and validating flags, the generation progress, all user answers
\* and all validation results, and leaves selectedChapters unchanged;
\* clearAnswers clears only the answers and clearValidationResults clears only
\* the results.
C29_ResetAndClearFrames ==
  LET before == storeOp.before
  IN /\ storeOp.op = "resetQuiz" =>
          storeState = [InitialQuizState(StoreIndices) EXCEPT
                          !.selectedChapters = before.selectedChapters]
     /\ storeOp.op = "clearAnswers" =>
          storeState = [before EXCEPT !.userAnswers = EmptyMap(StoreIndices)]
     /\ storeOp.op = "clearValidationResults" =>
          storeState = [before EXCEPT !.validationResults = EmptyMap(StoreIndices)]

C29_Witness ==
  LET before == storeOp.before
  IN /\ storeOp.op = "resetQuiz"
     /\ before.currentQuiz # Null
     /\ before.persistedQuizId # Null
     /\ before.isGenerating
     /\ before.isValidating
     /\ before.generationProgress = 50
     /\ before.selectedChapters = <<"ch1">>
     /\ MapSize(before.userAnswers) = MaxQuestions
     /\ MapSize(before.validationResults) = MaxQuestions
     /\ storeState.selectedChapters = <<"ch1">>

\* C25: once a validation result exists for question index i, QuizDisplay does
\* not invoke setAnswer(i, _), also while other questions are still without a
\* result, so that a stored result belongs to the answer stored.
C25_ValidatedAnswerIsFrozen ==
  useEvent.kind = "setAnswer" =>
    ~MapHas(useEvent.before.validationResults, useEvent.index)

\* the questions of the quiz all have an entry in the map
EveryQuestionIn(map) ==
  \A k \in 1..Len(quiz[1].questions) :
    MapGet(map, quiz[1].questions[k].question_index) # Null

C26_NothingStartsWhileStreaming ==
  [][sendStreaming => (sendCall' = sendCall /\ sendMode' = sendMode)]_vars

\* a request was started in each way the claim names
C26_Witness ==
  /\ sendCall.fn = "onSend"
  /\ sendCall.arg = Some(QuizGenerate)
  /\ sendStreaming
  /\ sendHovered

\* the two sizes sum to 100 and each is at least its minimum
PanelSizesWellFormed ==
  /\ panelSizes[1] + panelSizes[2] = 100
  /\ panelSizes[1] >= panelProps.minSizes[1]
  /\ panelSizes[2] >= panelProps.minSizes[2]

\* C30: from default sizes that sum to 100 and minimum sizes that sum to at
\* most 100, after any sequence of mouse events the two sizes sum to 100 and
\* each is at least its minimum, and the sizes change only on a mouse move
\* between a mousedown on the divider and the mouseup that follows.
C30_SizesWellFormed ==
  /\ []PanelSizesWellFormed
  /\ [][panelSizes' # panelSizes => (panelResizing /\ panelEvent' = "mousemove")]_vars

\* the same from default sizes that are at least the minimum sizes
C30_FromDefaultsAboveMinimum ==
  /\ [](panelProps.defaultSizes[1] >= panelProps.minSizes[1]
        /\ panelProps.defaultSizes[2] >= panelProps.minSizes[2]
        => PanelSizesWellFormed)
  /\ [][panelSizes' # panelSizes => (panelResizing /\ panelEvent' = "mousemove")]_vars

\* the chunks of a list
ChunksOf(list) == { list[k] : k \in 1..Len(list) }

\* C21: a chunk at rank 1 in both the lexical and the vector list has the
\* highest fused score of all candidates, and a chunk in neither list is not
\* in the fused output.
C21_FusionByReciprocalRank ==
  fusePc = "returned" =>
    /\ (fuseIn.lexical # <<>> /\ fuseIn.vector # <<>>
        /\ fuseIn.lexical[1] = fuseIn.vector[1]) =>
         \E i \in 1..Len(fused) :
           /\ fused[i].chunk = fuseIn.lexical[1]
           /\ \A j \in 1..Len(fused) : j # i => fused[j].score < fused[i].score
    /\ \A i \in 1..Len(fused) :
         fused[i].chunk \in ChunksOf(fuseIn.lexical) \cup ChunksOf(fuseIn.vector)
    /\ \A i \in 1..Len(fuseOut) :
         fuseOut[i].chunk \in ChunksOf(fuseIn.lexical) \cup ChunksOf(fuseIn.vector)

C21_Witness ==
  /\ fusePc = "returned"
  /\ Len(fuseIn.lexical) = MaxFuseChunks
  /\ Len(fuseIn.vector) = 2
  /\ fuseIn.lexical[1] = fuseIn.vector[1]
  /\ fuseIn.lexical[2] # fuseIn.vector[2]
  /\ Len(fuseOut) = 2
  /\ fuseOut[1].chunk = fuseIn.lexical[1]

====
